---------------------------- MODULE Spec2Model ----------------------------
(***************************************************************************)
(* Model of the fund-validation engine:                                    *)
(*   - DataCombiner.get_database_data / _calculate_rentabilidade           *)
(*     (src/data_combiner.py): returns computed from quota observations;   *)
(*   - DatabaseClient.get_period_dates / execute_fund_value_query /        *)
(*     get_all_fund_values (src/database_client.py): the window and the    *)
(*     rows of the fund value query;                                       *)
(*   - CSVComparator.run_comparison / compare_all_combinations /           *)
(*     _normalize_date (src/csv_comparator.py): reconciliation of the      *)
(*     bank series with the feed series.                                   *)
(*                                                                         *)
(* Numbers.  The code computes with Python floats.  The model computes     *)
(* with exact rationals <<n, d>> (d > 0, lowest terms), so the formulas    *)
(* are those of the code without binary rounding.  A missing number        *)
(* (pandas NaN, an empty CSV cell) is the pair <<0, 0>>.                   *)
(*                                                                         *)
(* Dates.  In the return computation a position date is a day number (a    *)
(* value or text that the code's strptime calls accept).  In               *)
(* the reconciliation a date is the text of a CSV cell, modelled as        *)
(* <<day, fmt>>, where fmt names how the text is written.                  *)
(***************************************************************************)
EXTENDS Integers, Sequences, FiniteSets, TLC

VARIABLES
    db_records,     \* what get_all_fund_values returns, the columns the computation reads
    db_result,      \* what DataCombiner.get_database_data returns
    db_status,      \* how get_database_data ended
    api_df,         \* feed snapshot loaded by run_comparison
    bank_df,        \* bank snapshot loaded by run_comparison
    result_df,      \* rows of the reconciliation report
    cmp_status,     \* how run_comparison ended
    fvh,            \* table FinancialInstrumentFundValueHistory of the database
    now,            \* datetime.now() read by get_period_dates
    api_ids,        \* instrument ids of the feed records given to get_database_data
    api_periodos,   \* periods of the feed records given to get_database_data
    fund_values,    \* the records get_all_fund_values returned, every column
    runs,           \* how many times run_comparison has run on the two snapshots
    date_value,     \* the value _normalize_date is called with
    date_clean,     \* what _normalize_date returned for it
    cache_files,    \* the JSON files of the cache directory, by cache key
    clock,          \* hours elapsed on the clock datetime.now() reads
    returned,       \* the last cache or client call and what it returned
    last_set,       \* per cache key, the most recent CacheManager.set call
    responses,      \* the responses given to process_all_responses
    all_records,    \* what process_all_responses returned for them
    app             \* RentabilidadeApp.run: its position, its steps, its result

dbvars == <<fvh, now, api_ids, api_periodos, fund_values>>

normvars == <<date_value, date_clean>>

cachevars == <<cache_files, clock, returned, last_set>>

flatvars == <<responses, all_records>>

servicevars == <<cachevars, flatvars, app>>

vars == <<db_records, db_result, db_status, api_df, bank_df, result_df, cmp_status,
          fvh, now, api_ids, api_periodos, fund_values, runs, date_value, date_clean,
          cache_files, clock, returned, last_set, responses, all_records, app>>

---------------------------------------------------------------------------
\* Bounds of the model.

\* longest list of quota observations handed to _calculate_rentabilidade
MaxObs == 3
\* most rows of the bank snapshot
MaxBank == 1
\* most rows of the feed snapshot
MaxFeed == 2
\* most rows of the fund value table
MaxRows == 3
\* most runs of run_comparison on one pair of snapshots
MaxRuns == 2

\* instrument ids
Ids == {1, 2}
\* period ids (keys of PERIODO_DESCRICOES)
Periodos == {1}
\* position dates of quota observations, as day numbers
Days == {1, 2, 3, 4}
\* quota values
Quotas == {0, 100, 110, 121}

---------------------------------------------------------------------------
\* Exact rational arithmetic standing for Python float arithmetic.

RECURSIVE GCD(_, _)
GCD(a, b) == IF b = 0 THEN a ELSE GCD(b, a % b)

IAbs(n) == IF n < 0 THEN -n ELSE n

RNorm(n, d) ==
    LET s == IF d < 0 THEN -1 ELSE 1
        g == GCD(IAbs(n), IAbs(d))
    IN  <<(s * n) \div g, (s * d) \div g>>

Rat(n) == <<n, 1>>
NaN == <<0, 0>>
IsNaN(x) == x[2] = 0

RAdd(x, y) == IF IsNaN(x) \/ IsNaN(y) THEN NaN
              ELSE RNorm(x[1] * y[2] + y[1] * x[2], x[2] * y[2])
RSub(x, y) == IF IsNaN(x) \/ IsNaN(y) THEN NaN
              ELSE RNorm(x[1] * y[2] - y[1] * x[2], x[2] * y[2])
RMul(x, y) == IF IsNaN(x) \/ IsNaN(y) THEN NaN
              ELSE RNorm(x[1] * y[1], x[2] * y[2])
\* x / y for y # 0 (the callers test y = 0 first: Python raises there)
RDiv(x, y) == IF IsNaN(x) \/ IsNaN(y) THEN NaN
              ELSE RNorm(x[1] * y[2], x[2] * y[1])
\* abs(x); abs(nan) is nan
RAbs(x) == <<IAbs(x[1]), x[2]>>
\* x < y; every comparison with nan is False
RLess(x, y) == ~IsNaN(x) /\ ~IsNaN(y) /\ x[1] * y[2] < y[1] * x[2]


---------------------------------------------------------------------------
\* Return computation: DataCombiner (src/data_combiner.py).

\* start_date of a period as DatabaseClient.get_period_dates computes it and
\* execute_fund_value_query writes it into every record (DataInicioPeriodo)
DataInicioPeriodo(periodo) == 3

\* one row of the fund value query, with the period fields added to it
DbRecord ==
    { [FinancialInstrumentId |-> id, PeriodoSelecionado |-> p, PositionDate |-> d,
       QuotaValue |-> q, DataInicioPeriodo |-> DataInicioPeriodo(p)] :
        id \in Ids, p \in Periodos, d \in Days, q \in Quotas }

\* key = (record["FinancialInstrumentId"], record["PeriodoSelecionado"])
GroupKey(record) == <<record.FinancialInstrumentId, record.PeriodoSelecionado>>

\* get_all_fund_values: the results of one query per (id, period), one after
\* the other, each ORDER BY PositionDate
IsFundValues(s) ==
    /\ \A i, j, k \in 1..Len(s) :
          (i < j /\ j < k /\ GroupKey(s[i]) = GroupKey(s[k])) => GroupKey(s[j]) = GroupKey(s[i])
    /\ \A i, j \in 1..Len(s) :
          (i < j /\ GroupKey(s[i]) = GroupKey(s[j])) => s[i].PositionDate <= s[j].PositionDate


\* grouped_records: the keys in the order of their first record
RECURSIVE GroupedKeys(_)
GroupedKeys(records) ==
    IF records = <<>> THEN <<>>
    ELSE LET front == GroupedKeys(SubSeq(records, 1, Len(records) - 1))
             key == GroupKey(records[Len(records)])
         IN  IF \E i \in 1..Len(front) : front[i] = key THEN front ELSE Append(front, key)

\* grouped_records[key]
GroupedRecords(records, key) ==
    LET InGroup(r) == GroupKey(r) = key IN SelectSeq(records, InGroup)

\* one step of the stable sort: record goes after every record that is not later
RECURSIVE InsertByPositionDate(_, _)
InsertByPositionDate(s, record) ==
    IF s = <<>> THEN <<record>>
    ELSE IF s[Len(s)].PositionDate <= record.PositionDate THEN Append(s, record)
    ELSE Append(InsertByPositionDate(SubSeq(s, 1, Len(s) - 1), record), s[Len(s)])

\* sorted(records, key=lambda x: x["PositionDate"]), a stable sort
RECURSIVE SortedRecords(_)
SortedRecords(records) ==
    IF records = <<>> THEN <<>>
    ELSE InsertByPositionDate(SortedRecords(SubSeq(records, 1, Len(records) - 1)),
                              records[Len(records)])

\* variant of IsAnchor that also takes the start date itself as pre-period
IsAnchorLate(record) == record.PositionDate <= record.DataInicioPeriodo
\* position_date < data_inicio: the record is an anchor record
IsAnchor(record) == record.PositionDate < record.DataInicioPeriodo

\* anchor_records and period_records of a sorted group
AnchorRecords(sorted_records) == SelectSeq(sorted_records, IsAnchor)
PeriodRecords(sorted_records) ==
    LET InPeriod(r) == ~IsAnchor(r) IN SelectSeq(sorted_records, InPeriod)

\* the anchor record whose quota becomes anchor_quota: anchor_records[0]
AnchorRecordLast(anchor_records) == anchor_records[Len(anchor_records)]
AnchorRecord(anchor_records) == anchor_records[1]

\* record.update({...}) on the copy of a period record
WithRentabilidade(record, rentabilidade, rentabilidade_acumulada) ==
    [FinancialInstrumentId |-> record.FinancialInstrumentId,
     PeriodoSelecionado |-> record.PeriodoSelecionado,
     PositionDate |-> record.PositionDate,
     QuotaValue |-> record.QuotaValue,
     DataInicioPeriodo |-> record.DataInicioPeriodo,
     Rentabilidade |-> rentabilidade,
     RentabilidadeAcumulada |-> rentabilidade_acumulada,
     PorcentagemRentabilidadeAcumulada |-> RMul(rentabilidade_acumulada, Rat(100))]

\* variant of PreviousQuota that keeps the anchor quota as baseline of every day
PreviousQuotaAnchor(period_records, i, anchor_records) ==
    IF anchor_records # <<>> THEN AnchorRecord(anchor_records).QuotaValue
    ELSE period_records[i - 1].QuotaValue
\* the quota the return of period_records[i] is computed against (i from 1)
PreviousQuota(period_records, i, anchor_records) ==
    IF i = 1 THEN AnchorRecord(anchor_records).QuotaValue
    ELSE period_records[i - 1].QuotaValue

\* variant of Accumulated that adds the returns instead of compounding them
AccumulatedSum(anterior, rentabilidade) == RAdd(anterior, rentabilidade)
\* rentabilidade_acumulada of a record after the first
Accumulated(anterior, rentabilidade) ==
    RSub(RMul(RAdd(anterior, Rat(1)), RAdd(rentabilidade, Rat(1))), Rat(1))

\* the loop "for i in range(len(period_records))" from index i on: anterior is
\* rentabilidade_acumulada_anterior, out is records_with_rentabilidade.
\* raised: the division raised ZeroDivisionError, which leaves the function.
RECURSIVE PeriodLoop(_, _, _, _, _)
PeriodLoop(period_records, anchor_records, i, anterior, out) ==
    IF i > Len(period_records) THEN [raised |-> FALSE, records |-> out]
    ELSE LET record == period_records[i]
             current_quota == Rat(record.QuotaValue)
         IN  IF i = 1 /\ anchor_records = <<>>
             THEN PeriodLoop(period_records, anchor_records, i + 1, Rat(0),
                             Append(out, WithRentabilidade(record, Rat(0), Rat(0))))
             ELSE LET previous_quota == PreviousQuota(period_records, i, anchor_records)
                  IN  IF previous_quota = 0
                      THEN [raised |-> TRUE, records |-> out]
                      ELSE LET rentabilidade ==
                                   RSub(RDiv(current_quota, Rat(previous_quota)), Rat(1))
                               rentabilidade_acumulada ==
                                   IF i = 1 THEN rentabilidade
                                   ELSE Accumulated(anterior, rentabilidade)
                           IN  PeriodLoop(period_records, anchor_records, i + 1,
                                          rentabilidade_acumulada,
                                          Append(out, WithRentabilidade(record, rentabilidade,
                                                                        rentabilidade_acumulada)))

\* the loop "for key, records in grouped_records.items()" from key number k on
RECURSIVE GroupLoop(_, _, _, _)
GroupLoop(db, keys, k, out) ==
    IF k > Len(keys) THEN [raised |-> FALSE, records |-> out]
    ELSE LET sorted_records == SortedRecords(GroupedRecords(db, keys[k]))
             group == PeriodLoop(PeriodRecords(sorted_records), AnchorRecords(sorted_records),
                                 1, Rat(0), out)
         IN  IF group.raised THEN group ELSE GroupLoop(db, keys, k + 1, group.records)

\* _calculate_rentabilidade(db_records)
CalculateRentabilidade(db) ==
    IF db = <<>> THEN [raised |-> FALSE, records |-> <<>>]
    ELSE GroupLoop(db, GroupedKeys(db), 1, <<>>)

\* get_database_data: connect, fetch, compute; every exception is caught and
\* turned into an empty result.
GetDatabaseData ==
    /\ db_status = "pending"
    /\ \E connected \in BOOLEAN :
          IF ~connected
          THEN /\ db_result' = <<>>
               /\ db_status' = "no_connection"
          ELSE IF db_records = <<>>
          THEN /\ db_result' = <<>>
               /\ db_status' = "no_data"
          ELSE LET r == CalculateRentabilidade(db_records)
               IN  IF r.raised
                   THEN /\ db_result' = <<>>
                        /\ db_status' = "error"
                   ELSE /\ db_result' = r.records
                        /\ db_status' = "done"
    /\ UNCHANGED <<db_records, api_df, bank_df, result_df, cmp_status, runs>>
    /\ UNCHANGED dbvars
    /\ UNCHANGED normvars
    /\ UNCHANGED servicevars

\* Cache files (cache_manager.py). A cache key is the prefix and the keyword
\* arguments: the md5 digest of the sorted 'k=v' items is taken to be injective,
\* and a record of the keyword arguments equals another exactly when the sorted
\* items do.
GenerateCacheKey(prefix, kwargs) == <<prefix, kwargs>>

\* the keys the two clients and the cache commands can form
CacheIds == {1}
CachePeriodos == {7}
ApiKwargs == [id : CacheIds, periodo : CachePeriodos]
DbKwargs == [financial_instrument_id : CacheIds, periodo : CachePeriodos]
CacheKeys ==
    { GenerateCacheKey("api", kw) : kw \in ApiKwargs }
      \cup { GenerateCacheKey("db_with_anchor", kw) : kw \in DbKwargs }
      \cup { GenerateCacheKey("db", kw) : kw \in DbKwargs }

\* no file of that key in the directory
Absent == [kind |-> "absent"]

\* a file json.load cannot read
Unreadable == [kind |-> "unreadable"]

\* None, and a value that is not None
None == <<>>
Some(value) == <<value>>

\* no call of the cache or of the clients
NoCache ==
    /\ cache_files = [k \in CacheKeys |-> Absent]
    /\ clock = 0
    /\ returned = [op |-> "none"]
    /\ last_set = [k \in CacheKeys |-> [kind |-> "none"]]

\* no call of process_all_responses on its own
NotProcessed == <<[pending |-> TRUE]>>
NoResponses ==
    /\ responses = <<>>
    /\ all_records = NotProcessed

\* no run of the application
NoApp == app = [pc |-> "idle"]

NoServices ==
    /\ NoCache
    /\ NoResponses
    /\ NoApp

\* no call of _normalize_date on its own
NoDate ==
    /\ date_value = <<0, "">>
    /\ date_clean = <<0, "">>

\* the run reads no table: the fetched records are given
NoDatabase ==
    /\ fvh = {}
    /\ now = <<>>
    /\ api_ids = <<>>
    /\ api_periodos = <<>>
    /\ fund_values = <<>>

InitCalc ==
    /\ \E n \in 0..MaxObs :
          /\ db_records \in [1..n -> DbRecord]
          /\ IsFundValues(db_records)
    /\ db_result = <<>>
    /\ db_status = "pending"
    /\ api_df = <<>>
    /\ bank_df = <<>>
    /\ result_df = <<>>
    /\ cmp_status = "idle"
    /\ runs = 0
    /\ NoDate
    /\ NoDatabase
    /\ NoServices

NextCalc == GetDatabaseData

SpecCalc == InitCalc /\ [][NextCalc]_vars

---------------------------------------------------------------------------
\* Fund value query: DatabaseClient (src/database_client.py), and the fetch
\* of DataCombiner.get_database_data that drives it.
\*
\* A date is its proleptic Gregorian ordinal (date.toordinal()); a datetime
\* is <<ordinal, time>>, where time is 0 at midnight and 1 later in the day.
\* PositionDate values of the table are dates (midnight).  The query is the
\* one the client runs on a cache miss.

\* PERIODO_MAPPING: feed period -> EPeriodo value of the database
PeriodoMapping(periodo) == periodo - 1

\* feed periods (keys of PERIODO_MAPPING, config.PERIODOS)
FeedPeriodos == 1..8

IsLeap(year) == (year % 4 = 0) /\ ((year % 100 # 0) \/ (year % 400 = 0))

DaysInMonth(year, month) ==
    IF month = 2 THEN (IF IsLeap(year) THEN 29 ELSE 28)
    ELSE IF month \in {4, 6, 9, 11} THEN 30 ELSE 31

RECURSIVE DaysBeforeMonth(_, _)
DaysBeforeMonth(year, month) ==
    IF month = 1 THEN 0
    ELSE DaysBeforeMonth(year, month - 1) + DaysInMonth(year, month - 1)

\* date(year, month, day).toordinal()
Ordinal(year, month, day) ==
    LET y == year - 1
    IN  y * 365 + (y \div 4) - (y \div 100) + (y \div 400)
        + DaysBeforeMonth(year, month) + day

\* datetime.weekday(): Monday is 0
Weekday(ordinal) == (ordinal + 6) % 7

\* datetime.now() of the run: a day of August and a day of December, at
\* midnight or later in the day
ReferenceDates ==
    { [year |-> 2025, month |-> m, day |-> 19, time |-> t] : m \in {8, 12}, t \in {0, 1} }

\* a < b on datetimes
DtLess(a, b) == a[1] < b[1] \/ (a[1] = b[1] /\ a[2] < b[2])

\* dt +/- timedelta(days=n)
PlusDays(dt, n) == <<dt[1] + n, dt[2]>>

\* get_period_dates(periodo, reference_date): (start_date, end_date)
GetPeriodDates(periodo, reference_date) ==
    LET ref == <<Ordinal(reference_date.year, reference_date.month, reference_date.day),
                 reference_date.time>>
        time == reference_date.time
        year == reference_date.year
        month == reference_date.month
        MesAtual ==
            [start_date |-> <<Ordinal(year, month, 1), time>>,
             end_date |-> IF month = 12
                          THEN PlusDays(<<Ordinal(year + 1, 1, 1), time>>, -1)
                          ELSE PlusDays(<<Ordinal(year, month + 1, 1), time>>, -1)]
    IN  CASE periodo = 0 ->
                LET start_date == PlusDays(ref, -Weekday(ref[1]))
                IN  [start_date |-> start_date, end_date |-> PlusDays(start_date, 6)]
          [] periodo = 1 -> MesAtual
          [] periodo = 2 ->
                [start_date |-> <<Ordinal(year, 1, 1), time>>,
                 end_date |-> <<Ordinal(year, 12, 31), time>>]
          [] periodo = 3 -> [start_date |-> PlusDays(ref, -365), end_date |-> ref]
          [] periodo = 4 -> [start_date |-> PlusDays(ref, -(3 * 365)), end_date |-> ref]
          [] periodo = 5 -> [start_date |-> <<Ordinal(2019, 1, 1), 0>>, end_date |-> ref]
          [] periodo = 6 -> [start_date |-> PlusDays(ref, -(2 * 365)), end_date |-> ref]
          [] periodo = 7 -> [start_date |-> PlusDays(ref, -30), end_date |-> ref]
          [] periodo = 8 -> [start_date |-> <<Ordinal(1900, 1, 1), 0>>, end_date |-> ref]
          [] OTHER -> MesAtual

\* _get_period_description(periodo)
GetPeriodDescription(periodo) ==
    CASE periodo = 0 -> "SemanaAtual"
      [] periodo = 1 -> "MesAtual"
      [] periodo = 2 -> "AnoAtual"
      [] periodo = 3 -> "DozeMeses"
      [] periodo = 4 -> "TresAnos"
      [] periodo = 5 -> "DesdeDoisMilDezenove"
      [] periodo = 6 -> "DoisAnos"
      [] periodo = 7 -> "TrintaDias"
      [] periodo = 8 -> "Inicio"
      [] OTHER -> "Desconhecido"

\* rows of FinancialInstrumentFundValueHistory of one instrument
RowsOf(table, id) == { row \in table : row.FinancialInstrumentId = id }

MaxDate(rows) == CHOOSE d \in { row.PositionDate : row \in rows } :
                    \A row \in rows : row.PositionDate <= d
MinDate(rows) == CHOOSE d \in { row.PositionDate : row \in rows } :
                    \A row \in rows : d <= row.PositionDate

\* subquery SEL_MIN: the set of its DT_INI values (no row when no position
\* date is >= the first parameter)
SelMin(table, id, anchor_date) ==
    LET a == { row \in RowsOf(table, id) : ~DtLess(<<row.PositionDate, 0>>, anchor_date) }
        b == { row \in RowsOf(table, id) : DtLess(<<row.PositionDate, 0>>, anchor_date) }
    IN  IF a = {} THEN {}
        ELSE IF b # {} THEN {MaxDate(b)} ELSE {MinDate(a)}

\* subquery SEL_MAX: the set of its DT_FIM values
SelMax(table, id, end_date) ==
    LET before == { row \in RowsOf(table, id) : DtLess(<<row.PositionDate, 0>>, end_date) }
    IN  IF before = {} THEN {} ELSE {MaxDate(before)}

\* ORDER BY FVH.PositionDate (a table holds one row per instrument and date)
RECURSIVE OrderByPositionDate(_)
OrderByPositionDate(rows) ==
    IF rows = {} THEN <<>>
    ELSE LET first == CHOOSE row \in rows : row.PositionDate = MinDate(rows)
         IN  <<first>> \o OrderByPositionDate(rows \ {first})

\* the anchor_date the query is given: start_date - timedelta(days=1)
AnchorDate(start_date) == PlusDays(start_date, -1)

\* execute_fund_value_query(financial_instrument_id, periodo), cache miss
ExecuteFundValueQuery(table, reference_date, financial_instrument_id, periodo) ==
    LET dates == GetPeriodDates(periodo, reference_date)
        anchor_date == AnchorDate(dates.start_date)
        selected ==
            { row \in RowsOf(table, financial_instrument_id) :
                /\ \E dt_ini \in SelMin(table, financial_instrument_id, anchor_date) :
                      row.PositionDate >= dt_ini
                /\ \E dt_fim \in SelMax(table, financial_instrument_id, dates.end_date) :
                      row.PositionDate <= dt_fim }
        rows == OrderByPositionDate(selected)
    IN  [ i \in 1..Len(rows) |->
            [FinancialInstrumentId |-> rows[i].FinancialInstrumentId,
             QuotaValue |-> rows[i].QuotaValue,
             PositionDate |-> rows[i].PositionDate,
             PeriodoSelecionado |-> periodo,
             DescricaoPeriodo |-> GetPeriodDescription(periodo),
             DataInicioPeriodo |-> dates.start_date[1],
             DataFimPeriodo |-> dates.end_date[1]] ]

\* get_all_fund_values(ids, periodos): the loop over periodos from number j on
RECURSIVE PeriodosLoop(_, _, _, _, _)
PeriodosLoop(table, reference_date, instrument_id, periodos, j) ==
    IF j > Len(periodos) THEN <<>>
    ELSE ExecuteFundValueQuery(table, reference_date, instrument_id, periodos[j])
         \o PeriodosLoop(table, reference_date, instrument_id, periodos, j + 1)

\* get_all_fund_values(ids, periodos): the loop over ids from number i on
RECURSIVE GetAllFundValues(_, _, _, _, _)
GetAllFundValues(table, reference_date, ids, periodos, i) ==
    IF i > Len(ids) THEN <<>>
    ELSE PeriodosLoop(table, reference_date, ids[i], periodos, 1)
         \o GetAllFundValues(table, reference_date, ids, periodos, i + 1)

\* the period the query is run with for feed period p: get_database_data hands
\* the feed's PeriodoSelecionado values to get_all_fund_values as they are
QueryPeriodo(periodo) == periodo

\* the columns of a query record that _calculate_rentabilidade reads
CalcColumns(record) ==
    [FinancialInstrumentId |-> record.FinancialInstrumentId,
     PeriodoSelecionado |-> record.PeriodoSelecionado,
     PositionDate |-> record.PositionDate,
     QuotaValue |-> record.QuotaValue,
     DataInicioPeriodo |-> record.DataInicioPeriodo]

\* get_database_data(api_records): connect, fetch the series of every
\* (id, period) of the feed, compute; every exception is caught and turned
\* into an empty result.
FetchDatabaseData ==
    /\ db_status = "start"
    /\ \E connected \in BOOLEAN :
          IF ~connected
          THEN /\ fund_values' = <<>>
               /\ db_records' = <<>>
               /\ db_result' = <<>>
               /\ db_status' = "no_connection"
          ELSE LET periodos == [ j \in 1..Len(api_periodos) |-> QueryPeriodo(api_periodos[j]) ]
                   fetched == GetAllFundValues(fvh, now, api_ids, periodos, 1)
                   db == [ i \in 1..Len(fetched) |-> CalcColumns(fetched[i]) ]
               IN  /\ fund_values' = fetched
                   /\ db_records' = db
                   /\ IF fetched = <<>>
                      THEN /\ db_result' = <<>>
                           /\ db_status' = "no_data"
                      ELSE LET r == CalculateRentabilidade(db)
                           IN  IF r.raised
                               THEN /\ db_result' = <<>>
                                    /\ db_status' = "error"
                               ELSE /\ db_result' = r.records
                                    /\ db_status' = "done"
    /\ UNCHANGED <<fvh, now, api_ids, api_periodos,
                   api_df, bank_df, result_df, cmp_status, runs>>
    /\ UNCHANGED normvars
    /\ UNCHANGED servicevars

\* the quota published for a date (one quota per instrument and date)
QuotaOn(date) == 100 + 10 * (date % 3)

\* position dates of the table: around the start and the end of the window
\* the query is run with
TableDates(periodo, reference_date) ==
    LET dates == GetPeriodDates(QueryPeriodo(periodo), reference_date)
        s == dates.start_date[1]
        e == dates.end_date[1]
    IN  {s - 3, s - 2, s - 1, s, e, e + 1}

InitDb ==
    /\ now \in ReferenceDates
    /\ api_ids = <<1, 2>>
    /\ \E p \in FeedPeriodos : api_periodos = <<p>>
    /\ \E rows \in SUBSET { [FinancialInstrumentId |-> id, PositionDate |-> d,
                             QuotaValue |-> QuotaOn(d)] :
                               id \in Ids, d \in TableDates(api_periodos[1], now) } :
          /\ Cardinality(rows) <= MaxRows
          /\ fvh = rows
    /\ fund_values = <<>>
    /\ db_records = <<>>
    /\ db_result = <<>>
    /\ db_status = "start"
    /\ api_df = <<>>
    /\ bank_df = <<>>
    /\ result_df = <<>>
    /\ cmp_status = "idle"
    /\ runs = 0
    /\ NoDate
    /\ NoServices

NextDb == FetchDatabaseData

SpecDb == InitDb /\ [][NextDb]_vars

---------------------------------------------------------------------------
\* Reconciliation: CSVComparator (src/csv_comparator.py).

\* COMPARISON_TOLERANCE = 0.10 (src/config.py)
Tolerance == <<1, 10>>

\* PERIODO_DESCRICOES.get(periodo, "Desconhecido") (src/config.py)
PeriodoDescricao(periodo) ==
    CASE periodo = 1 -> "Na semana atual"
      [] periodo = 2 -> "No mes atual"
      [] periodo = 3 -> "No ano atual"
      [] periodo = 4 -> "Nos ultimos 12 meses"
      [] periodo = 5 -> "Nos ultimos 3 anos"
      [] periodo = 6 -> "Desde 2019"
      [] periodo = 7 -> "Nos ultimos 2 anos"
      [] periodo = 8 -> "Nos ultimos 30 dias"
      [] OTHER -> "Desconhecido"

\* Texts of dates: <<day, fmt>>.  fmt is
\*   "date"    YYYY-MM-DD
\*   "space"   YYYY-MM-DD HH:MM:SS
\*   "T"       YYYY-MM-DDTHH:MM:SS
\*   "TZ"      YYYY-MM-DDTHH:MM:SSZ
\*   "offset"  YYYY-MM-DDTHH:MM:SS-03:00
\* Texts in no format of the feed or the bank: "dmy" DD/MM/YYYY, "fraction"
\* YYYY-MM-DDTHH:MM:SS.fffZ.
\* A date/time value that is not a text is <<day, "datetime">> (a datetime or a
\* pandas Timestamp) or <<day, "dateobj">> (a date); <<day, "list">> is a list
\* of two date texts and <<day, "repr">> the text str() writes for it.
\* EmptyText is the empty string, NaT the missing value of an unmatched merge row.
EmptyText == <<0, "">>
NaT == <<0, "nan">>

\* the formats datetime.strptime is tried with in _normalize_date
StrptimeFormats == {"T", "TZ", "space", "date"}

\* str(value): a text is itself, a datetime (or pandas Timestamp) value is
\* written 'YYYY-MM-DD HH:MM:SS', a date value 'YYYY-MM-DD'
Str(value) ==
    CASE value[2] = "datetime" -> <<value[1], "space">>
      [] value[2] = "dateobj" -> <<value[1], "date">>
      [] value[2] = "list" -> <<value[1], "repr">>
      [] OTHER -> value

\* an exception raised inside the try block of _normalize_date
Raised == <<0, "raised">>

\* the try block of _normalize_date(date_str): only a text is tried with the
\* strptime formats; for a list of several dates pd.isna gives an array, whose
\* truth value raises ValueError
NormalizeTry(date_str) ==
    IF date_str[2] = "list" THEN Raised
    ELSE IF date_str = NaT \/ date_str = EmptyText THEN EmptyText
    ELSE IF date_str[2] \in StrptimeFormats THEN <<date_str[1], "date">>
    ELSE Str(date_str)

\* variant of NormalizeDate without the except clause
NormalizeDateNoExcept(date_str) == NormalizeTry(date_str)
\* _normalize_date(date_str): the try block, and str(date_str) from the except
\* clause
NormalizeDate(date_str) ==
    IF NormalizeTry(date_str) = Raised THEN Str(date_str) ELSE NormalizeTry(date_str)

\* order of the texts as Python strings: a text that is a prefix of another
\* comes first, then ' ' < 'T', and after the seconds '-' < 'Z'
FormatRank(fmt) ==
    CASE fmt = "" -> 0
      [] fmt = "date" -> 1
      [] fmt = "space" -> 2
      [] fmt = "T" -> 3
      [] fmt = "offset" -> 4
      [] fmt = "TZ" -> 5
      [] OTHER -> 6
TextLess(a, b) ==
    \/ (a = EmptyText /\ b # EmptyText)
    \/ (a # EmptyText /\ b # EmptyText /\ a[1] < b[1])
    \/ (a # EmptyText /\ b # EmptyText /\ a[1] = b[1] /\ FormatRank(a[2]) < FormatRank(b[2]))

\* the texts and numbers the snapshots are drawn from
FeedDates == {<<1, "T">>, <<2, "T">>, <<1, "offset">>}
BankDates == {<<1, "space">>, <<2, "space">>}
FeedPercentuais == {NaN, <<-1, 20>>, <<211, 10>>}
BankPercentuais == {Rat(0), Rat(21)}

\* a row of dados_rentabilidade_api.csv (the columns the comparison reads)
ApiRecord ==
    [Id : Ids, PeriodoSelecionado : Periodos, DataFinal : FeedDates,
     PercentualAcumulado : FeedPercentuais]
\* a row of dados_rentabilidade_banco.csv (the columns the comparison reads;
\* QuotaValue, Rentabilidade and RentabilidadeAcumulada are copied through to
\* the report unchanged and are left out)
BankRecord ==
    [FinancialInstrumentId : Ids, PeriodoSelecionado : Periodos, PositionDate : BankDates,
     PorcentagemRentabilidadeAcumulada : BankPercentuais]

\* the feed snapshot is written after DataProcessor.sort_records: ascending by
\* (Id, PeriodoSelecionado)
IsApiSnapshot(s) ==
    \A i, j \in 1..Len(s) :
        i < j => \/ s[i].Id < s[j].Id
                 \/ (s[i].Id = s[j].Id /\ s[i].PeriodoSelecionado <= s[j].PeriodoSelecionado)
\* the bank snapshot is written after sort_records of the computed records (they
\* have no "Id": ascending by PeriodoSelecionado only), each group in one piece
\* and in chronological order
IsBankSnapshot(s) ==
    /\ \A i, j \in 1..Len(s) : i < j => s[i].PeriodoSelecionado <= s[j].PeriodoSelecionado
    /\ \A i, j, k \in 1..Len(s) :
          (i < j /\ j < k /\ s[i].FinancialInstrumentId = s[k].FinancialInstrumentId
                 /\ s[i].PeriodoSelecionado = s[k].PeriodoSelecionado)
          => (s[j].FinancialInstrumentId = s[i].FinancialInstrumentId
              /\ s[j].PeriodoSelecionado = s[i].PeriodoSelecionado)
    /\ \A i, j \in 1..Len(s) :
          (i < j /\ s[i].FinancialInstrumentId = s[j].FinancialInstrumentId
                 /\ s[i].PeriodoSelecionado = s[j].PeriodoSelecionado)
          => s[i].PositionDate[1] <= s[j].PositionDate[1]


\* the merge keys: left_on = [FinancialInstrumentId, PeriodoSelecionado,
\* PositionDate_clean], right_on = [Id, PeriodoSelecionado, DataFinal_clean]
MergeKeysEqual(bank_row, api_row) ==
    /\ bank_row.FinancialInstrumentId = api_row.Id
    /\ bank_row.PeriodoSelecionado = api_row.PeriodoSelecionado
    /\ NormalizeDate(bank_row.PositionDate) = NormalizeDate(api_row.DataFinal)

\* the rows of merged_df that one bank row gives (how='left'): one per feed row
\* with equal keys, in feed order, or one with missing feed columns
MergedRowsInner(bank_row, api) ==
    LET Matches(api_row) == MergeKeysEqual(bank_row, api_row)
        matches == SelectSeq(api, Matches)
    IN  [ j \in 1..Len(matches) |->
            [FinancialInstrumentId |-> bank_row.FinancialInstrumentId,
             PeriodoSelecionado |-> bank_row.PeriodoSelecionado,
             PositionDate |-> bank_row.PositionDate,
             PorcentagemRentabilidadeAcumulada |-> bank_row.PorcentagemRentabilidadeAcumulada,
             DataFinal |-> matches[j].DataFinal,
             PercentualAcumulado |-> matches[j].PercentualAcumulado] ]
MergedRowsOf(bank_row, api) ==
    LET Matches(api_row) == MergeKeysEqual(bank_row, api_row)
        matches == SelectSeq(api, Matches)
    IN  IF matches = <<>>
        THEN << [FinancialInstrumentId |-> bank_row.FinancialInstrumentId,
                 PeriodoSelecionado |-> bank_row.PeriodoSelecionado,
                 PositionDate |-> bank_row.PositionDate,
                 PorcentagemRentabilidadeAcumulada |-> bank_row.PorcentagemRentabilidadeAcumulada,
                 DataFinal |-> NaT,
                 PercentualAcumulado |-> NaN] >>
        ELSE [ j \in 1..Len(matches) |->
                [FinancialInstrumentId |-> bank_row.FinancialInstrumentId,
                 PeriodoSelecionado |-> bank_row.PeriodoSelecionado,
                 PositionDate |-> bank_row.PositionDate,
                 PorcentagemRentabilidadeAcumulada |-> bank_row.PorcentagemRentabilidadeAcumulada,
                 DataFinal |-> matches[j].DataFinal,
                 PercentualAcumulado |-> matches[j].PercentualAcumulado] ]

\* merged_df = pd.merge(bank_df_clean, api_df_clean, ..., how='left')
RECURSIVE MergedDf(_, _)
MergedDf(bank, api) ==
    IF bank = <<>> THEN <<>>
    ELSE MergedDf(SubSeq(bank, 1, Len(bank) - 1), api) \o MergedRowsOf(bank[Len(bank)], api)

\* api_df[(api_df['Id'] == id_val) & (api_df['PeriodoSelecionado'] == periodo)]
ApiFiltered(api, id_val, periodo) ==
    LET Same(r) == r.Id = id_val /\ r.PeriodoSelecionado = periodo IN SelectSeq(api, Same)
\* bank_df[(bank_df['FinancialInstrumentId'] == id_val) & (... == periodo)]
BankFiltered(bank, id_val, periodo) ==
    LET Same(r) == r.FinancialInstrumentId = id_val /\ r.PeriodoSelecionado = periodo
    IN  SelectSeq(bank, Same)

\* variant of FallbackRecord that takes the first row, .iloc[0]
FallbackRecordFirst(api_filtered) == api_filtered[1]
\* the feed row used when the merge found no percentage: .iloc[-1]
FallbackRecord(api_filtered) == api_filtered[Len(api_filtered)]

\* 'OK' if diferenca < self.tolerance else 'ERRO'
StatusOf(diferenca) == IF RLess(diferenca, Tolerance) THEN "OK" ELSE "ERRO"

\* the feed side of a merged row: (api_value, api_data_final, tipo_registro)
FeedSide(row, api) ==
    IF ~IsNaN(row.PercentualAcumulado)
    THEN [api_value |-> row.PercentualAcumulado, api_data_final |-> row.DataFinal,
          tipo_registro |-> "Ambas (Data exata)"]
    ELSE LET api_filtered == ApiFiltered(api, row.FinancialInstrumentId, row.PeriodoSelecionado)
         IN  IF api_filtered # <<>>
             THEN [api_value |-> FallbackRecord(api_filtered).PercentualAcumulado,
                   api_data_final |-> FallbackRecord(api_filtered).DataFinal,
                   tipo_registro |-> "Ambas (Data nao exata)"]
             ELSE [api_value |-> Rat(0), api_data_final |-> EmptyText,
                   tipo_registro |-> "So Banco"]

\* the body of "for _, row in merged_df.iterrows()": the report row of a merged row
BankResult(row, api) ==
    LET feed == FeedSide(row, api)
        bank_value == row.PorcentagemRentabilidadeAcumulada
        diferenca == RAbs(RSub(feed.api_value, bank_value))
    IN  [Id |-> row.FinancialInstrumentId,
         Periodo |-> row.PeriodoSelecionado,
         DescricaoPeriodo |-> PeriodoDescricao(row.PeriodoSelecionado),
         PositionDate_Banco |-> row.PositionDate,
         DataFinal_API |-> feed.api_data_final,
         PercentualAcumulado_API |-> feed.api_value,
         PercentualAcumulado_Banco |-> bank_value,
         Diferenca |-> diferenca,
         Status |-> StatusOf(diferenca),
         TipoRegistro |-> feed.tipo_registro]

\* api_used = set(merged_df['DataFinal'].dropna().unique())
ApiUsed(merged) == { merged[i].DataFinal : i \in 1..Len(merged) } \ {NaT}

\* the report row of a feed row that exists only in the feed
ApiOnlyResult(api_record) ==
    [Id |-> api_record.Id,
     Periodo |-> api_record.PeriodoSelecionado,
     DescricaoPeriodo |-> PeriodoDescricao(api_record.PeriodoSelecionado),
     PositionDate_Banco |-> EmptyText,
     DataFinal_API |-> api_record.DataFinal,
     PercentualAcumulado_API |-> api_record.PercentualAcumulado,
     PercentualAcumulado_Banco |-> Rat(0),
     Diferenca |-> api_record.PercentualAcumulado,
     Status |-> "ERRO",
     TipoRegistro |-> "So API"]

\* variant of IsApiOnly that does not look at api_used
IsApiOnlyAnyDate(api_record, bank, api_used) ==
    BankFiltered(bank, api_record.Id, api_record.PeriodoSelecionado) = <<>>
\* the test of "for _, api_record in api_df.iterrows()": the feed row gets a row
IsApiOnly(api_record, bank, api_used) ==
    /\ api_record.DataFinal \notin api_used
    /\ BankFiltered(bank, api_record.Id, api_record.PeriodoSelecionado) = <<>>

\* results in the order of the appends: the merged rows, then the feed-only rows
RECURSIVE BankResults(_, _)
BankResults(merged, api) ==
    IF merged = <<>> THEN <<>>
    ELSE Append(BankResults(SubSeq(merged, 1, Len(merged) - 1), api),
                BankResult(merged[Len(merged)], api))

RECURSIVE ApiOnlyResults(_, _, _)
ApiOnlyResults(api, bank, api_used) ==
    IF api = <<>> THEN <<>>
    ELSE LET front == ApiOnlyResults(SubSeq(api, 1, Len(api) - 1), bank, api_used)
             api_record == api[Len(api)]
         IN  IF IsApiOnly(api_record, bank, api_used)
             THEN Append(front, ApiOnlyResult(api_record))
             ELSE front

\* the sort key ['Id', 'Periodo', 'PositionDate_Banco']
SortKeyLess(a, b) ==
    \/ a.Id < b.Id
    \/ (a.Id = b.Id /\ a.Periodo < b.Periodo)
    \/ (a.Id = b.Id /\ a.Periodo = b.Periodo
                    /\ TextLess(a.PositionDate_Banco, b.PositionDate_Banco))

RECURSIVE InsertBySortKey(_, _)
InsertBySortKey(s, r) ==
    IF s = <<>> THEN <<r>>
    ELSE IF ~SortKeyLess(r, s[Len(s)]) THEN Append(s, r)
    ELSE Append(InsertBySortKey(SubSeq(s, 1, Len(s) - 1), r), s[Len(s)])

\* variant of SortValues that leaves the rows in the order of their emission
SortValuesNone(results) == results
\* result_df.sort_values(['Id', 'Periodo', 'PositionDate_Banco']): with several
\* keys pandas sorts with a stable lexsort
RECURSIVE SortValues(_)
SortValues(results) ==
    IF results = <<>> THEN <<>>
    ELSE InsertBySortKey(SortValues(SubSeq(results, 1, Len(results) - 1)),
                         results[Len(results)])

\* compare_all_combinations(api_df, bank_df) for snapshots that have their columns
CompareAllCombinations(api, bank) ==
    LET merged_df == MergedDf(bank, api)
        results == BankResults(merged_df, api)
                       \o ApiOnlyResults(api, bank, ApiUsed(merged_df))
    IN  SortValues(results)

\* variant of Empty that takes no table as empty
EmptyNever(df) == FALSE
\* df.empty
Empty(df) == df = <<>>

\* variant of FrameAfter in which the run writes the normalized dates into the
\* caller's frame
FrameAfterInPlace(df) ==
    [ i \in DOMAIN df |->
        IF "DataFinal" \in DOMAIN df[i]
        THEN [df[i] EXCEPT !.DataFinal = NormalizeDate(@)]
        ELSE [df[i] EXCEPT !.PositionDate = NormalizeDate(@)] ]
\* a frame given to compare_all_combinations, after the call: the columns are
\* added to api_df.copy() and bank_df.copy()
FrameAfter(df) == df

\* the steps of run_comparison: load both snapshots, give up on an empty one,
\* compare, export.  It returns "" in every status but "exported".
RunComparisonSteps ==
    /\ IF Empty(api_df)
       THEN /\ result_df' = <<>>
            /\ cmp_status' = "no_api_data"
            /\ UNCHANGED <<api_df, bank_df>>
       ELSE IF Empty(bank_df)
       THEN /\ result_df' = <<>>
            /\ cmp_status' = "no_bank_data"
            /\ UNCHANGED <<api_df, bank_df>>
       ELSE LET comparison == CompareAllCombinations(api_df, bank_df)
            IN  /\ api_df' = FrameAfter(api_df)
                /\ bank_df' = FrameAfter(bank_df)
                /\ IF Empty(comparison)
                   THEN /\ result_df' = <<>>
                        /\ cmp_status' = "failed"
                   ELSE /\ result_df' = comparison
                        /\ \E exported \in BOOLEAN :
                              cmp_status' = IF exported THEN "exported" ELSE "export_failed"
    /\ runs' = runs + 1
    /\ UNCHANGED <<db_records, db_result, db_status>>
    /\ UNCHANGED dbvars
    /\ UNCHANGED normvars
    /\ UNCHANGED servicevars

\* run_comparison on the snapshots just written
RunComparison ==
    /\ cmp_status = "loaded"
    /\ RunComparisonSteps

\* run_comparison once more on the same snapshots
RunComparisonAgain ==
    /\ cmp_status \notin {"idle", "loaded"}
    /\ runs < MaxRuns
    /\ RunComparisonSteps

InitRec ==
    /\ \E n \in 0..MaxFeed :
          /\ api_df \in [1..n -> ApiRecord]
          /\ IsApiSnapshot(api_df)
    /\ \E n \in 0..MaxBank :
          /\ bank_df \in [1..n -> BankRecord]
          /\ IsBankSnapshot(bank_df)
    /\ result_df = <<>>
    /\ cmp_status = "loaded"
    /\ runs = 0
    /\ NoDate
    /\ db_records = <<>>
    /\ db_result = <<>>
    /\ db_status = "idle"
    /\ NoDatabase
    /\ NoServices

NextRec == RunComparison

SpecRec == InitRec /\ [][NextRec]_vars

\* Runs over snapshots of two periods, with one percentage on each side: the
\* inputs on which every key of the final sort decides the place of a row.
OrdPeriodos == {1, 2}
OrdApiRecord ==
    [Id : Ids, PeriodoSelecionado : OrdPeriodos, DataFinal : FeedDates,
     PercentualAcumulado : {<<211, 10>>}]
OrdBankRecord ==
    [FinancialInstrumentId : Ids, PeriodoSelecionado : OrdPeriodos, PositionDate : BankDates,
     PorcentagemRentabilidadeAcumulada : {Rat(21)}]

InitOrd ==
    /\ \E n \in 0..MaxFeed :
          /\ api_df \in [1..n -> OrdApiRecord]
          /\ IsApiSnapshot(api_df)
    /\ \E n \in 0..MaxBank :
          /\ bank_df \in [1..n -> OrdBankRecord]
          /\ IsBankSnapshot(bank_df)
    /\ result_df = <<>>
    /\ cmp_status = "loaded"
    /\ runs = 0
    /\ NoDate
    /\ db_records = <<>>
    /\ db_result = <<>>
    /\ db_status = "idle"
    /\ NoDatabase
    /\ NoServices

NextOrd == RunComparison

SpecOrd == InitOrd /\ [][NextOrd]_vars

\* Calls of _normalize_date on one value: the texts of the feed and of the bank
\* snapshot, and date/time values.
NormDays == 1..20
DateTexts == NormDays \X {"date", "space", "T", "TZ", "offset"}
DateValues == NormDays \X {"datetime", "dateobj"}
OtherTexts == NormDays \X {"dmy", "fraction"}
OtherValues == NormDays \X {"list"}
NotNormalized == <<0, "pending">>

Normalize ==
    /\ date_clean = NotNormalized
    /\ date_clean' = NormalizeDate(date_value)
    /\ UNCHANGED <<date_value, db_records, db_result, db_status, api_df, bank_df,
                   result_df, cmp_status, runs>>
    /\ UNCHANGED dbvars
    /\ UNCHANGED servicevars

InitNorm ==
    /\ date_value \in DateTexts \cup DateValues \cup OtherTexts \cup OtherValues
                        \cup {EmptyText, NaT}
    /\ date_clean = NotNormalized
    /\ db_records = <<>>
    /\ db_result = <<>>
    /\ db_status = "idle"
    /\ api_df = <<>>
    /\ bank_df = <<>>
    /\ result_df = <<>>
    /\ cmp_status = "idle"
    /\ runs = 0
    /\ NoDatabase
    /\ NoServices

NextNorm == Normalize

SpecNorm == InitNorm /\ [][NextNorm]_vars

\* Runs repeated on one pair of snapshots.
NextTwice == RunComparison \/ RunComparisonAgain

SpecTwice == InitRec /\ [][NextTwice]_vars

---------------------------------------------------------------------------
\* Properties of the return computation (specification SpecCalc).

\* the groups of the input
InputKeys == { GroupKey(db_records[i]) : i \in 1..Len(db_records) }
\* the observations of a group, in input order
InputGroup(key) == GroupedRecords(db_records, key)
\* the return records emitted for a group, in output order
OutputGroup(key) == GroupedRecords(db_result, key)
\* the observation a return record was computed for
ObservationOf(o) ==
    [FinancialInstrumentId |-> o.FinancialInstrumentId,
     PeriodoSelecionado |-> o.PeriodoSelecionado,
     PositionDate |-> o.PositionDate,
     QuotaValue |-> o.QuotaValue,
     DataInicioPeriodo |-> o.DataInicioPeriodo]
\* how many times x occurs in s
Count(s, x) == Cardinality({ i \in 1..Len(s) : s[i] = x })
\* positions of the pre-period and of the in-period observations of a group
PrePositions(g) == { i \in 1..Len(g) : g[i].PositionDate < g[i].DataInicioPeriodo }
InPositions(g) == { i \in 1..Len(g) : g[i].PositionDate >= g[i].DataInicioPeriodo }
\* the earliest pre-period observations of a group
EarliestPre(g) ==
    { i \in PrePositions(g) : \A j \in PrePositions(g) : g[i].PositionDate <= g[j].PositionDate }
\* (1 + r[1]) * ... * (1 + r[i]) over the returns of the records g[1..i]
RECURSIVE ReturnProduct(_, _)
ReturnProduct(g, i) ==
    IF i = 0 THEN Rat(1)
    ELSE RMul(ReturnProduct(g, i - 1), RAdd(Rat(1), g[i].Rentabilidade))

\* C6: in every group, for every in-period index i > 0 the accumulated return is
\* (1 + accumulated[i-1]) * (1 + return[i]) - 1; with an anchor present it is the
\* product over j = 0..i of (1 + return[j]) minus 1; and the percentage of every
\* record is its accumulated return times 100.
C6_Compounding ==
    \A key \in InputKeys :
        LET g == OutputGroup(key) IN
        /\ \A i \in 2..Len(g) :
              g[i].RentabilidadeAcumulada =
                  RSub(RMul(RAdd(Rat(1), g[i - 1].RentabilidadeAcumulada),
                            RAdd(Rat(1), g[i].Rentabilidade)), Rat(1))
        /\ PrePositions(InputGroup(key)) # {} =>
              \A i \in 1..Len(g) :
                  g[i].RentabilidadeAcumulada = RSub(ReturnProduct(g, i), Rat(1))
        /\ \A i \in 1..Len(g) :
              g[i].PorcentagemRentabilidadeAcumulada =
                  RMul(g[i].RentabilidadeAcumulada, Rat(100))

\* C6 witness: anchor 100, then 110 and 121: the second record has accumulated
\* return 0.21 and percentage 21.
C6_Witness ==
    /\ db_status = "done"
    /\ \E key \in InputKeys :
          LET g == OutputGroup(key) IN
          /\ PrePositions(InputGroup(key)) # {}
          /\ Len(g) = 2
          /\ g[1].RentabilidadeAcumulada = <<1, 10>>
          /\ g[2].Rentabilidade = <<1, 10>>
          /\ g[2].RentabilidadeAcumulada = <<21, 100>>
          /\ g[2].PorcentagemRentabilidadeAcumulada = Rat(21)

\* C7 (as stated): for the first in-period observation of a group, with an anchor
\* the return is current_quota / anchor_quota - 1 and the accumulated return
\* equals it; without an anchor both are 0 and the record is still emitted.
C7_FirstRecord ==
    db_status \in {"done", "error"} =>
        \A key \in InputKeys :
            LET in == InputGroup(key)
                g == OutputGroup(key)
            IN  InPositions(in) # {} =>
                    IF PrePositions(in) = {}
                    THEN /\ Len(g) >= 1
                         /\ g[1].Rentabilidade = Rat(0)
                         /\ g[1].RentabilidadeAcumulada = Rat(0)
                    ELSE (\A a \in PrePositions(in) : in[a].QuotaValue # 0) =>
                         /\ Len(g) >= 1
                         /\ \E a \in EarliestPre(in) :
                               g[1].Rentabilidade =
                                   RSub(RDiv(Rat(g[1].QuotaValue), Rat(in[a].QuotaValue)), Rat(1))
                         /\ g[1].RentabilidadeAcumulada = g[1].Rentabilidade

\* C8: the emitted records of a group are its in-period observations in
\* chronological order, and for every index i > 0 the return is
\* current_quota / previous_quota - 1, previous_quota being the quota of the
\* record at index i-1 of that sequence.
C8_PreviousQuota ==
    \A key \in InputKeys :
        LET in == InputGroup(key)
            g == OutputGroup(key)
        IN  /\ \A i \in 1..Len(g) :
                  /\ g[i].PositionDate >= g[i].DataInicioPeriodo
                  /\ Count(in, ObservationOf(g[i])) >= 1
            /\ \A i \in 2..Len(g) :
                  /\ g[i - 1].PositionDate <= g[i].PositionDate
                  /\ g[i - 1].QuotaValue # 0
                  /\ g[i].Rentabilidade =
                         RSub(RDiv(Rat(g[i].QuotaValue), Rat(g[i - 1].QuotaValue)), Rat(1))
            /\ db_status = "done" => Len(g) = Cardinality(InPositions(in))

\* C8 witness: anchor 100, then 110 and 121 gives returns 0.10, 0.10 and
\* accumulated returns 0.10, 0.21.
C8_Witness ==
    /\ db_status = "done"
    /\ \E key \in InputKeys :
          LET in == InputGroup(key)
              g == OutputGroup(key)
          IN  /\ Len(in) = 3 /\ Len(g) = 2
              /\ in[1].QuotaValue = 100 /\ in[1].PositionDate < in[1].DataInicioPeriodo
              /\ g[1].QuotaValue = 110 /\ g[2].QuotaValue = 121
              /\ g[1].Rentabilidade = <<1, 10>> /\ g[2].Rentabilidade = <<1, 10>>
              /\ g[1].RentabilidadeAcumulada = <<1, 10>>
              /\ g[2].RentabilidadeAcumulada = <<21, 100>>

\* C9 (as stated): a zero anchor or previous quota excludes only the record whose
\* return would divide by it; the computation does not abort and every other
\* record of every group is still emitted.
C9_ZeroQuotaIsolated ==
    db_status \in {"done", "error"} =>
        /\ db_status = "done"
        /\ \A key \in InputKeys :
              LET sorted_records == SortedRecords(InputGroup(key))
                  anchor_records == AnchorRecords(sorted_records)
                  period_records == PeriodRecords(sorted_records)
              IN  \A i \in 1..Len(period_records) :
                      (\/ (i = 1 /\ anchor_records = <<>>)
                       \/ (i = 1 /\ anchor_records # <<>>
                                 /\ AnchorRecord(anchor_records).QuotaValue # 0)
                       \/ (i > 1 /\ period_records[i - 1].QuotaValue # 0))
                      => \E j \in 1..Len(db_result) :
                             ObservationOf(db_result[j]) = period_records[i]

AloneResult(key) ==
    LET r == CalculateRentabilidade(InputGroup(key))
    IN  IF r.raised THEN <<>> ELSE r.records

\* C18 (as stated): the return records of a group are those computed from the
\* observations of that group alone, whatever other groups the input holds.
C18_GroupFunction ==
    db_status \in {"done", "error"} =>
        \A key \in InputKeys : OutputGroup(key) = AloneResult(key)

---------------------------------------------------------------------------
\* Properties of the fund value query (specification SpecDb).

\* the latest pre-period observations of a group
LatestPre(g) ==
    { i \in PrePositions(g) : \A j \in PrePositions(g) : g[j].PositionDate <= g[i].PositionDate }

\* C11 (as stated): the baseline of a group's first return is the quota of the
\* observation with the latest position date strictly before the period start
\* among the observations supplied for the group.
C11_AnchorImmediatelyPreceding ==
    db_status = "done" =>
        \A key \in InputKeys :
            LET in == InputGroup(key)
                g == OutputGroup(key)
            IN  (PrePositions(in) # {} /\ Len(g) >= 1) =>
                    \E a \in LatestPre(in) :
                        g[1].Rentabilidade =
                            RSub(RDiv(Rat(g[1].QuotaValue), Rat(in[a].QuotaValue)), Rat(1))

\* C12 (as stated): every observation the database client returns is dated from
\* the day before the period start to the period end, each query's observations
\* are in chronological order, and the only observation before the period start
\* that can be returned is the one dated the day before it.
C12_QueryWindow ==
    /\ \A i \in 1..Len(fund_values) :
          /\ fund_values[i].DataInicioPeriodo - 1 <= fund_values[i].PositionDate
          /\ fund_values[i].PositionDate <= fund_values[i].DataFimPeriodo
    /\ \A i, j \in 1..Len(fund_values) :
          (i < j /\ GroupKey(fund_values[i]) = GroupKey(fund_values[j])) =>
              fund_values[i].PositionDate <= fund_values[j].PositionDate

\* C13 (as stated): the series tagged with feed period p is fetched with the
\* window of the database period PERIODO_MAPPING[p], and every feed period has
\* a mapping.
C13_MappedWindow ==
    /\ \A p \in FeedPeriodos : PeriodoMapping(p) \in 0..8
    /\ \A i \in 1..Len(fund_values) :
          LET p == fund_values[i].PeriodoSelecionado
              dates == GetPeriodDates(PeriodoMapping(p), now)
          IN  /\ p \in FeedPeriodos
              /\ fund_values[i].DataInicioPeriodo = dates.start_date[1]
              /\ fund_values[i].DataFimPeriodo = dates.end_date[1]

---------------------------------------------------------------------------
\* Properties of the reconciliation (specification SpecRec).

\* run_comparison compared the snapshots and result_df is the report
Compared == cmp_status \in {"exported", "export_failed"}
\* the report rows that carry the bank record b
RowsOfBank(b) ==
    { k \in 1..Len(result_df) :
        /\ result_df[k].Id = b.FinancialInstrumentId
        /\ result_df[k].Periodo = b.PeriodoSelecionado
        /\ result_df[k].PositionDate_Banco = b.PositionDate
        /\ result_df[k].PercentualAcumulado_Banco = b.PorcentagemRentabilidadeAcumulada }
\* the report rows that carry the feed record f
RowsOfFeed(f) ==
    { k \in 1..Len(result_df) :
        /\ result_df[k].Id = f.Id
        /\ result_df[k].Periodo = f.PeriodoSelecionado
        /\ result_df[k].DataFinal_API = f.DataFinal
        /\ result_df[k].PercentualAcumulado_API = f.PercentualAcumulado }
\* the feed records that share instrument, period and normalized date with b
ExactFeed(b) ==
    { i \in 1..Len(api_df) :
        /\ api_df[i].Id = b.FinancialInstrumentId
        /\ api_df[i].PeriodoSelecionado = b.PeriodoSelecionado
        /\ NormalizeDate(api_df[i].DataFinal) = NormalizeDate(b.PositionDate) }
\* the feed records that share instrument and period with b
GroupFeed(b) ==
    { i \in 1..Len(api_df) :
        /\ api_df[i].Id = b.FinancialInstrumentId
        /\ api_df[i].PeriodoSelecionado = b.PeriodoSelecionado }
\* the bank records that share instrument and period with f
GroupBank(f) ==
    { i \in 1..Len(bank_df) :
        /\ bank_df[i].FinancialInstrumentId = f.Id
        /\ bank_df[i].PeriodoSelecionado = f.PeriodoSelecionado }
\* the last of a non-empty set of positions
LastOf(S) == CHOOSE i \in S : \A j \in S : j <= i
\* the feed dates consumed by the exact pass
ConsumedDates ==
    { api_df[i].DataFinal :
        i \in { j \in 1..Len(api_df) : \E k \in 1..Len(bank_df) : j \in ExactFeed(bank_df[k]) } }

\* C1 (as stated): every row of the report, of every match kind, has
\* difference = |feed percentage - bank percentage|, never negative, and status
\* OK exactly when difference < tolerance.
C1_DifferenceAndStatus ==
    \A k \in 1..Len(result_df) :
        LET row == result_df[k] IN
        /\ row.Diferenca = RAbs(RSub(row.PercentualAcumulado_API, row.PercentualAcumulado_Banco))
        /\ ~RLess(row.Diferenca, Rat(0))
        /\ (row.Status = "OK") = RLess(row.Diferenca, Tolerance)
        /\ row.Status \in {"OK", "ERRO"}

\* C2 (as stated): the report has one row per observation of either side: every
\* bank record is in exactly one row, every feed record is in a row, and no
\* observation is reported twice.
C2_OneRowPerObservation ==
    Compared =>
        /\ \A i \in 1..Len(bank_df) :
              Cardinality(RowsOfBank(bank_df[i])) = Count(bank_df, bank_df[i])
        /\ \A i \in 1..Len(api_df) :
              /\ RowsOfFeed(api_df[i]) # {}
              /\ Cardinality(RowsOfFeed(api_df[i])) <= Count(api_df, api_df[i])

\* C3 (as stated): a bank record for which some feed record has the same
\* instrument, period and normalized date gets a row of kind "Ambas (Data
\* exata)" with the percentage and date of such a feed record, and no row of
\* another kind.
C3_ExactPass ==
    Compared =>
        \A i \in 1..Len(bank_df) :
            ExactFeed(bank_df[i]) # {} =>
                /\ RowsOfBank(bank_df[i]) # {}
                /\ \A k \in RowsOfBank(bank_df[i]) :
                      /\ result_df[k].TipoRegistro = "Ambas (Data exata)"
                      /\ \E j \in ExactFeed(bank_df[i]) :
                            /\ result_df[k].PercentualAcumulado_API = api_df[j].PercentualAcumulado
                            /\ result_df[k].DataFinal_API = api_df[j].DataFinal

\* C4: a bank record with no feed record of the same instrument, period and
\* normalized date gets a row; if a feed record shares its instrument and
\* period the row has kind "Ambas (Data nao exata)" and the percentage and date
\* of the last such feed record in feed order; otherwise it has kind "So Banco",
\* feed percentage 0 and status OK exactly when the bank percentage is within
\* the tolerance of 0.
C4_FallbackPass ==
    Compared =>
        \A i \in 1..Len(bank_df) :
            LET b == bank_df[i] IN
            ExactFeed(b) = {} =>
                /\ RowsOfBank(b) # {}
                /\ \A k \in RowsOfBank(b) :
                      LET row == result_df[k] IN
                      IF GroupFeed(b) # {}
                      THEN /\ row.TipoRegistro = "Ambas (Data nao exata)"
                           /\ row.PercentualAcumulado_API =
                                  api_df[LastOf(GroupFeed(b))].PercentualAcumulado
                           /\ row.DataFinal_API = api_df[LastOf(GroupFeed(b))].DataFinal
                      ELSE /\ row.TipoRegistro = "So Banco"
                           /\ row.PercentualAcumulado_API = Rat(0)
                           /\ row.DataFinal_API = EmptyText
                           /\ (row.Status = "OK") =
                                  RLess(RAbs(b.PorcentagemRentabilidadeAcumulada), Tolerance)
                           /\ row.Status \in {"OK", "ERRO"}

\* C4 witness: a bank record without exact hit whose group has two feed records
\* with different percentages, reported with the second one.
C4_Witness ==
    /\ Compared
    /\ \E i \in 1..Len(bank_df) :
          LET b == bank_df[i] IN
          /\ ExactFeed(b) = {}
          /\ GroupFeed(b) = {1, 2}
          /\ api_df[1].PercentualAcumulado # api_df[2].PercentualAcumulado
          /\ \E k \in RowsOfBank(b) :
                /\ result_df[k].TipoRegistro = "Ambas (Data nao exata)"
                /\ result_df[k].PercentualAcumulado_API = api_df[2].PercentualAcumulado

\* the row the feed-only pass gives for the feed record f
FeedOnlyRowOf(f) ==
    [Id |-> f.Id,
     Periodo |-> f.PeriodoSelecionado,
     DescricaoPeriodo |-> PeriodoDescricao(f.PeriodoSelecionado),
     PositionDate_Banco |-> EmptyText,
     DataFinal_API |-> f.DataFinal,
     PercentualAcumulado_API |-> f.PercentualAcumulado,
     PercentualAcumulado_Banco |-> Rat(0),
     Diferenca |-> f.PercentualAcumulado,
     Status |-> "ERRO",
     TipoRegistro |-> "So API"]

C14_EmptyInput ==
    cmp_status # "loaded" =>
        /\ api_df = <<>> => (result_df = <<>> /\ cmp_status = "no_api_data")
        /\ (api_df # <<>> /\ bank_df = <<>>) =>
              (result_df = <<>> /\ cmp_status = "no_bank_data")
        /\ (api_df # <<>> /\ bank_df # <<>>) =>
              cmp_status \in {"failed", "exported", "export_failed"}

\* C14 witness: a run with feed records and an empty bank snapshot has ended
\* without rows.
C14_Witness ==
    /\ cmp_status = "no_bank_data"
    /\ Len(api_df) = 2
    /\ bank_df = <<>>
    /\ result_df = <<>>

\* the rows in the order the two loops of compare_all_combinations emit them
Emitted(api, bank) ==
    LET merged_df == MergedDf(bank, api)
    IN  BankResults(merged_df, api) \o ApiOnlyResults(api, bank, ApiUsed(merged_df))
\* the bank-side date of a row as a day number, the empty date first
BankDay(r) == IF r.PositionDate_Banco = EmptyText THEN 0 ELSE r.PositionDate_Banco[1]
\* the sort key of a row
ReportKey(r) == <<r.Id, r.Periodo, BankDay(r)>>
\* k1 comes after k2
KeyAfter(k1, k2) ==
    \/ k1[1] > k2[1]
    \/ (k1[1] = k2[1] /\ k1[2] > k2[2])
    \/ (k1[1] = k2[1] /\ k1[2] = k2[2] /\ k1[3] > k2[3])
\* the rows of s that have key k, in the order of s
WithKey(s, k) == LET Has(r) == ReportKey(r) = k IN SelectSeq(s, Has)

SnapshotKeys ==
    { <<api_df[i].Id, api_df[i].PeriodoSelecionado>> : i \in 1..Len(api_df) }
        \cup { <<bank_df[i].FinancialInstrumentId, bank_df[i].PeriodoSelecionado>> :
                 i \in 1..Len(bank_df) }
\* the feed records, the bank records and the report rows of a group
FeedOfGroup(key) ==
    LET In(f) == <<f.Id, f.PeriodoSelecionado>> = key IN SelectSeq(api_df, In)
BankOfGroup(key) ==
    LET In(b) == <<b.FinancialInstrumentId, b.PeriodoSelecionado>> = key IN SelectSeq(bank_df, In)
RowsOfGroup(key) ==
    LET In(r) == <<r.Id, r.Periodo>> = key IN SelectSeq(result_df, In)

\* C17 (as stated): the rows of a group are those the comparison yields on the
\* bank and feed records of that group alone, whatever the records of the other
\* groups are.
C17_GroupIndependent ==
    Compared =>
        \A key \in SnapshotKeys :
            RowsOfGroup(key) = CompareAllCombinations(FeedOfGroup(key), BankOfGroup(key))

---------------------------------------------------------------------------
\* Properties of the date normalization (specification SpecNorm).

\* C19 (as stated): for a text in one of the accepted formats - timestamp with
\* UTC offset (Z or +-hh:mm), timestamp without offset, date and time separated
\* by a space, date only - normalize returns the YYYY-MM-DD text of its date.
C19_AcceptedFormats ==
    (date_clean # NotNormalized /\ date_value \in DateTexts) =>
        date_clean = <<date_value[1], "date">>

\* C20 (as stated): for a date/time value that is not a text, normalize returns
\* the YYYY-MM-DD text of its date, which is what it returns for the date-only
\* text of the same date.
C20_DateValue ==
    (date_clean # NotNormalized /\ date_value \in DateValues) =>
        /\ date_clean = <<date_value[1], "date">>
        /\ date_clean = NormalizeDate(<<date_value[1], "date">>)

\* C21: normalize raises for no input; for the empty text and for an absent
\* value it returns the empty text, and a text in none of the formats it parses
\* is returned as it is.
C21_NeverRaises ==
    date_clean # NotNormalized =>
        /\ date_clean # Raised
        /\ date_value \in {EmptyText, NaT} => date_clean = EmptyText
        /\ (date_value \in DateTexts \cup OtherTexts /\ date_value[2] \notin StrptimeFormats) =>
              date_clean = date_value

\* C21 witness: a call with a list, on which the try block raises, has returned
\* the text of the list.
C21_Witness ==
    /\ date_value[2] = "list"
    /\ date_clean = <<date_value[1], "repr">>

---------------------------------------------------------------------------
\* CacheManager (cache_manager.py): one JSON file per key, holding created_at,
\* ttl_hours and data. Time is counted in hours.

\* CacheManager(cache_dir, default_ttl_hours = 24)
DefaultTtlHours == 24

\* config.py: the time to live of the feed's and of the database's entries
CACHE_TTL_HOURS_API == 24
CACHE_TTL_HOURS_DB == 12

\* the hours between two calls of the clients: the clock passes the expiry of an
\* entry of 12 and of 24 hours on either side; between two calls of the cache
\* on its own: half a day
Elapsed == {11, 13}
ManagerElapsed == {12}
MaxClock == 24

\* ttl_hours or self.default_ttl_hours: None and 0 are both false
TtlOrDefault(ttl_hours) ==
    IF ttl_hours = None \/ ttl_hours = Some(0) THEN DefaultTtlHours ELSE ttl_hours[1]

\* what json.load reads back from what json.dump(data, default=str) wrote. The
\* data is <<"dict", d>>, a dictionary of texts and numbers, kept as it is, or
\* <<"rows", rows>>, the records of a query: the datetime of PositionDate is
\* written as the text str() gives
JsonRoundTrip(data) ==
    IF data[1] = "rows"
    THEN <<"rows", [i \in DOMAIN data[2] |->
                      [data[2][i] EXCEPT !.PositionDate = Str(@)]]>>
    ELSE data

\* _is_cache_valid(cache_data) at time t
IsCacheValid(cache_data, t) ==
    t < cache_data.created_at + cache_data.ttl_hours

\* json.load of the file succeeds and the entry is valid at time t
ValidFile(file, t) == file.kind = "entry" /\ IsCacheValid(file, t)

\* the file set(prefix, data, ttl_hours, **kwargs) writes at time t
CacheEntry(data, ttl_hours, t) ==
    [kind |-> "entry", created_at |-> t, ttl_hours |-> TtlOrDefault(ttl_hours),
     data |-> data]

\* the directory after get(prefix, **kwargs): an entry that is not valid is
\* deleted; a file that cannot be read is left (the exception is caught)
FilesAfterGet(files, key, t) ==
    IF files[key].kind = "entry" /\ ~IsCacheValid(files[key], t)
    THEN [files EXCEPT ![key] = Absent]
    ELSE files

\* what get(prefix, **kwargs) returns
GetValue(files, key, t) ==
    IF ValidFile(files[key], t) THEN Some(files[key].data) ELSE None

\* the directory after set(...): "saved" the dump succeeded; "unwritten" the
\* file could not be opened; "truncated" the dump failed after open(..., 'w')
SetOutcomes == {"saved", "unwritten", "truncated"}
FilesAfterSet(files, key, data, ttl_hours, t, outcome) ==
    CASE outcome = "saved" -> [files EXCEPT ![key] = CacheEntry(data, ttl_hours, t)]
      [] outcome = "truncated" -> [files EXCEPT ![key] = Unreadable]
      [] OTHER -> files

\* the most recent set of a key, as called, when it returned True
SetCall(data, ttl_hours, t, outcome) ==
    IF outcome = "saved"
    THEN [kind |-> "saved", at |-> t, ttl_hours |-> ttl_hours, data |-> data]
    ELSE [kind |-> "failed"]

\* clear_expired(): the files left, a file that cannot be read among them
FilesAfterClearExpired(files, t) ==
    [k \in DOMAIN files |->
        IF files[k].kind = "entry" /\ ~IsCacheValid(files[k], t) THEN Absent
        ELSE files[k]]

\* get_cache_info(): the counts over the files of the directory
CacheInfo(files, t) ==
    LET present == {k \in DOMAIN files : files[k] # Absent}
        valid == {k \in present : ValidFile(files[k], t)}
    IN  [total_files |-> Cardinality(present),
         valid_files |-> Cardinality(valid),
         expired_files |-> Cardinality(present \ valid)]

\* the data and the ttl_hours arguments of the calls of set
CacheData == {<<"dict", "r1">>, <<"dict", "r2">>}
TtlHours == {None, Some(0), Some(12)}

\* the keys the calls of the cache on its own use
ManagerKeys == {k \in CacheKeys : k[1] \in {"api", "db_with_anchor"}}

corevars == <<db_records, db_result, db_status, api_df, bank_df, result_df,
              cmp_status, runs, dbvars, normvars>>

othervars == <<corevars, flatvars, app>>

\* hours pass between two calls
Tick(hours) ==
    /\ clock + hours <= MaxClock
    /\ clock' = clock + hours
    /\ returned' = [op |-> "tick"]
    /\ UNCHANGED <<cache_files, last_set>>
    /\ UNCHANGED othervars

\* CacheManager.set(prefix, data, ttl_hours, **kwargs)
CacheSet ==
    /\ \E key \in ManagerKeys, data \in CacheData, ttl_hours \in TtlHours,
          outcome \in SetOutcomes :
          /\ cache_files' = FilesAfterSet(cache_files, key, JsonRoundTrip(data), ttl_hours,
                                          clock, outcome)
          /\ last_set' = [last_set EXCEPT ![key] = SetCall(data, ttl_hours, clock, outcome)]
          /\ returned' = [op |-> "set", key |-> key, value |-> outcome = "saved"]
    /\ UNCHANGED clock
    /\ UNCHANGED othervars

\* CacheManager.get(prefix, **kwargs)
CacheGet ==
    /\ \E key \in ManagerKeys :
          /\ returned' = [op |-> "get", key |-> key,
                          value |-> GetValue(cache_files, key, clock)]
          /\ cache_files' = FilesAfterGet(cache_files, key, clock)
    /\ UNCHANGED <<clock, last_set>>
    /\ UNCHANGED othervars

\* CacheManager.invalidate(prefix, **kwargs), called by op
InvalidateKey(key, op) ==
    /\ returned' = [op |-> op, key |-> key, value |-> cache_files[key] # Absent]
    /\ cache_files' = [cache_files EXCEPT ![key] = Absent]
    /\ last_set' = [last_set EXCEPT ![key] = [kind |-> "none"]]
    /\ UNCHANGED clock
    /\ UNCHANGED othervars

Invalidate == \E key \in ManagerKeys : InvalidateKey(key, "invalidate")

\* CacheManager.clear_all()
ClearAll ==
    /\ returned' = [op |-> "clear_all",
                    value |-> Cardinality({k \in CacheKeys : cache_files[k] # Absent})]
    /\ cache_files' = [k \in CacheKeys |-> Absent]
    /\ last_set' = [k \in CacheKeys |-> [kind |-> "none"]]
    /\ UNCHANGED clock
    /\ UNCHANGED othervars

\* CacheManager.clear_expired()
ClearExpired ==
    /\ cache_files' = FilesAfterClearExpired(cache_files, clock)
    /\ returned' = [op |-> "clear_expired",
                    value |-> Cardinality({k \in CacheKeys :
                                             cache_files'[k] # cache_files[k]})]
    /\ UNCHANGED <<clock, last_set>>
    /\ UNCHANGED othervars

\* CacheManager.get_cache_info()
GetCacheInfo ==
    /\ returned' = [op |-> "get_cache_info", value |-> CacheInfo(cache_files, clock)]
    /\ UNCHANGED <<cache_files, clock, last_set>>
    /\ UNCHANGED othervars

\* no run of the reconciliation, of the return computation or of the queries
NoRun ==
    /\ db_records = <<>>
    /\ db_result = <<>>
    /\ db_status = "idle"
    /\ api_df = <<>>
    /\ bank_df = <<>>
    /\ result_df = <<>>
    /\ cmp_status = "idle"
    /\ runs = 0
    /\ NoDate

InitCache ==
    /\ NoRun
    /\ NoDatabase
    /\ NoServices

NextCache ==
    \/ \E hours \in ManagerElapsed : Tick(hours)
    \/ CacheSet
    \/ CacheGet
    \/ Invalidate
    \/ ClearAll
    \/ ClearExpired
    \/ GetCacheInfo

SpecCache == InitCache /\ [][NextCache]_vars

---------------------------------------------------------------------------
\* Claims on the cache manager, under SpecCache.

\* the time to live the caller of set asked for: the value passed, the default
\* when None was passed
AskedTtl(call) == IF call.ttl_hours = None THEN DefaultTtlHours ELSE call.ttl_hours[1]

\* C24: get(prefix, kwargs) returns the data of the most recent set of the same
\* key exactly when that set happened less than ttl_hours hours ago, ttl_hours
\* being the value passed to that set (0 included) or default_ttl_hours when
\* None was passed; otherwise it returns None and an expired entry is deleted.
C24_GetWithinTtl ==
    (returned.op = "get" /\ last_set[returned.key].kind \in {"saved", "none"}) =>
        LET call == last_set[returned.key]
            fresh == call.kind = "saved" /\ clock - call.at < AskedTtl(call)
        IN  /\ returned.value = IF fresh THEN Some(call.data) ELSE None
            /\ ~fresh => cache_files[returned.key] = Absent

\* C26: clear_expired removes exactly the entries that are not valid and returns
\* how many it removed: every entry get_cache_info counts as valid is still
\* present and unchanged, and a get_cache_info taken right after it reports
\* expired_files = 0 (and total_files = valid_files + expired_files).
C26_ClearExpiredExact ==
    [][returned'.op = "clear_expired" =>
         LET present == {k \in CacheKeys : cache_files[k] # Absent}
             valid == {k \in present : ValidFile(cache_files[k], clock)}
             info == CacheInfo(cache_files', clock')
         IN  /\ \A k \in valid : cache_files'[k] = cache_files[k]
             /\ \A k \in present \ valid : cache_files'[k] = Absent
             /\ returned'.value = Cardinality(present \ valid)
             /\ info.expired_files = 0
             /\ info.total_files = info.valid_files + info.expired_files]_vars

---------------------------------------------------------------------------
\* The two clients in front of the cache (api_client.py, database_client.py) and
\* the cache commands clear-api and clear-db (manage_cache.py).

\* config.py
MAX_RETRIES == 5

\* datetime.now() when the clock shows t hours: the run starts on 2025-08-19 at
\* 14:00
NowAt(t) ==
    [year |-> 2025, month |-> 8, day |-> 19 + ((14 + t) \div 24),
     time |-> IF (14 + t) % 24 = 0 THEN 0 ELSE 1]

\* the records cursor.fetchall() gives: PositionDate is a datetime value
FetchedRows(table, reference_date, financial_instrument_id, periodo) ==
    LET results == ExecuteFundValueQuery(table, reference_date,
                                         financial_instrument_id, periodo)
    IN  [i \in DOMAIN results |->
            [results[i] EXCEPT !.PositionDate = <<@, "datetime">>]]

\* how a query ends: records, no connection, or an exception
QueryOutcomes == {"ok", "no_connection", "error"}

\* execute_fund_value_query(financial_instrument_id, periodo) with the cache
ExecuteFundValueQueryCached ==
    /\ \E financial_instrument_id \in CacheIds, periodo \in CachePeriodos :
           LET key == GenerateCacheKey("db_with_anchor",
                          [financial_instrument_id |-> financial_instrument_id,
                           periodo |-> periodo])
               cached_data == GetValue(cache_files, key, clock)
               files == FilesAfterGet(cache_files, key, clock)
               results == FetchedRows(fvh, NowAt(clock), financial_instrument_id,
                                      periodo)
           IN  IF cached_data # None
               THEN /\ returned' = [op |-> "execute_fund_value_query", key |-> key,
                                    value |-> cached_data[1][2], hit |-> TRUE]
                    /\ cache_files' = files
                    /\ UNCHANGED last_set
               ELSE \E query \in QueryOutcomes :
                    IF query # "ok"
                    THEN /\ returned' = [op |-> "execute_fund_value_query",
                                         key |-> key, value |-> <<>>, hit |-> FALSE]
                         /\ cache_files' = files
                         /\ UNCHANGED last_set
                    ELSE \E outcome \in SetOutcomes :
                         /\ returned' = [op |-> "execute_fund_value_query",
                                         key |-> key, value |-> results, hit |-> FALSE]
                         /\ cache_files' = FilesAfterSet(files, key,
                                               JsonRoundTrip(<<"rows", results>>),
                                               Some(CACHE_TTL_HOURS_DB), clock, outcome)
                         /\ last_set' = [last_set EXCEPT ![key] =
                                            SetCall(<<"rows", results>>,
                                                    Some(CACHE_TTL_HOURS_DB), clock,
                                                    outcome)]
    /\ UNCHANGED clock
    /\ UNCHANGED othervars

\* what an HTTP attempt gives: status 200 with a JSON body, status 200 with a
\* body response.json() cannot parse, another status or a request exception
Answers == {"200", "200_not_json", "failed"}

\* the body the feed answers for an instrument and a period
FeedBody(id_value, periodo) == <<"Rentabilidades", id_value, periodo>>

\* the loop over the attempts: it returns at the first answer of status 200
\* whose body is JSON and goes on after any other answer, MAX_RETRIES times at
\* most; answers are the answers to the attempts the loop makes
ReturnsResultAnyBody(answer) == answer \in {"200", "200_not_json"}
ReturnsResult(answer) == answer = "200"
LoopAnswers(answers) ==
    /\ \A i \in 1..(Len(answers) - 1) : ~ReturnsResult(answers[i])
    /\ Len(answers) = MAX_RETRIES \/ ReturnsResult(answers[Len(answers)])

\* get_rentabilidade_data(id_value, periodo)
GetRentabilidadeData ==
    /\ \E id_value \in CacheIds, periodo \in CachePeriodos :
           LET key == GenerateCacheKey("api", [id |-> id_value, periodo |-> periodo])
               cached_data == GetValue(cache_files, key, clock)
               files == FilesAfterGet(cache_files, key, clock)
               result == <<"dict", [id |-> id_value, periodo |-> periodo,
                                    data |-> FeedBody(id_value, periodo),
                                    status_code |-> 200]>>
           IN  IF cached_data # None
               THEN /\ returned' = [op |-> "get_rentabilidade_data", key |-> key,
                                    value |-> cached_data, hit |-> TRUE,
                                    attempts |-> <<>>, saved |-> FALSE]
                    /\ cache_files' = files
                    /\ UNCHANGED last_set
               ELSE \E n \in 1..MAX_RETRIES : \E answers \in [1..n -> Answers] :
                    /\ LoopAnswers(answers)
                    /\ IF ~ReturnsResult(answers[Len(answers)])
                       THEN /\ returned' = [op |-> "get_rentabilidade_data",
                                            key |-> key, value |-> None, hit |-> FALSE,
                                            attempts |-> answers, saved |-> FALSE]
                            /\ cache_files' = files
                            /\ UNCHANGED last_set
                       ELSE \E outcome \in SetOutcomes :
                            /\ returned' = [op |-> "get_rentabilidade_data",
                                            key |-> key, value |-> Some(result),
                                            hit |-> FALSE, attempts |-> answers,
                                            saved |-> outcome = "saved"]
                            /\ cache_files' = FilesAfterSet(files, key,
                                                  JsonRoundTrip(result),
                                                  Some(CACHE_TTL_HOURS_API), clock,
                                                  outcome)
                            /\ last_set' = [last_set EXCEPT ![key] =
                                               SetCall(result, Some(CACHE_TTL_HOURS_API),
                                                       clock, outcome)]
    /\ UNCHANGED clock
    /\ UNCHANGED othervars

\* manage_cache.py clear-api --id id_value --periodo periodo
ClearApiCache ==
    \E id_value \in CacheIds, periodo \in CachePeriodos :
        InvalidateKey(GenerateCacheKey("api", [id |-> id_value, periodo |-> periodo]),
                      "clear_api_cache")

\* manage_cache.py clear-db --id id_value --periodo periodo
ClearDbCache ==
    \E id_value \in CacheIds, periodo \in CachePeriodos :
        InvalidateKey(GenerateCacheKey("db",
                          [financial_instrument_id |-> id_value, periodo |-> periodo]),
                      "clear_db_cache")

\* position dates of the table: around the start and the end of the windows
\* of the queries of a run
ClientDates == { Ordinal(2025, 7, 19), Ordinal(2025, 8, 19), Ordinal(2025, 8, 20) }

InitClients ==
    /\ NoRun
    /\ NoServices
    /\ now = <<>>
    /\ api_ids = <<>>
    /\ api_periodos = <<>>
    /\ fund_values = <<>>
    /\ \E rows \in SUBSET { [FinancialInstrumentId |-> id, PositionDate |-> d,
                             QuotaValue |-> QuotaOn(d)] :
                               id \in CacheIds, d \in ClientDates } :
          /\ Cardinality(rows) <= MaxRows
          /\ fvh = rows

NextClients ==
    \/ \E hours \in Elapsed : Tick(hours)
    \/ ExecuteFundValueQueryCached
    \/ GetRentabilidadeData
    \/ ClearApiCache
    \/ ClearDbCache

SpecClients == InitClients /\ [][NextClients]_vars

\* The feed client and its cache command alone.
NextFeed ==
    \/ \E hours \in Elapsed : Tick(hours)
    \/ GetRentabilidadeData
    \/ ClearApiCache

SpecFeed == InitCache /\ [][NextFeed]_vars

---------------------------------------------------------------------------
\* Claims on the clients and the cache, under SpecClients.

\* what the database would return for the request of the last call, now
SourceRows ==
    FetchedRows(fvh, NowAt(clock), returned.key[2].financial_instrument_id,
                returned.key[2].periodo)

\* what the feed would return for the request of the last call, now
SourceResult ==
    [id |-> returned.key[2].id, periodo |-> returned.key[2].periodo,
     data |-> FeedBody(returned.key[2].id, returned.key[2].periodo),
     status_code |-> 200]

\* C22: the value a client returns on a cache hit equals the value the source
\* would return for the same request at that moment: same records, same field
\* values and types, same period window.
C22_CacheTransparent ==
    /\ (returned.op = "execute_fund_value_query" /\ returned.hit) =>
          returned.value = SourceRows
    /\ (returned.op = "get_rentabilidade_data" /\ returned.hit) =>
          returned.value = Some(<<"dict", SourceResult>>)

\* C23: after clear-db --id i --periodo p no cached database result of (i, p)
\* remains: the next execute_fund_value_query(i, p) misses the cache and queries
\* the database; likewise clear-api and the next get_rentabilidade_data(i, p).
C23_ClearedThenMiss ==
    [][/\ (/\ returned.op = "clear_db_cache"
           /\ returned'.op = "execute_fund_value_query"
           /\ returned'.key[2] = returned.key[2]) => ~returned'.hit
       /\ (/\ returned.op = "clear_api_cache"
           /\ returned'.op = "get_rentabilidade_data"
           /\ returned'.key[2] = returned.key[2]) => ~returned'.hit]_vars

---------------------------------------------------------------------------
\* Claims on the feed client, under SpecFeed.

\* the answer has status 200
Status200(answer) == answer \in {"200", "200_not_json"}

\* C27 (as stated): get_rentabilidade_data makes at most MAX_RETRIES attempts on
\* a miss, returns the result of the first attempt that answers 200, making no
\* further attempt and writing the result to the cache, returns None after
\* MAX_RETRIES failed attempts without a cache write, and makes no attempt on a
\* hit.
C27_FirstStatus200 ==
    returned.op = "get_rentabilidade_data" =>
        LET attempts == returned.attempts
        IN  /\ Len(attempts) <= MAX_RETRIES
            /\ returned.hit => attempts = <<>>
            /\ ~returned.hit =>
                 IF \E i \in 1..Len(attempts) : Status200(attempts[i])
                 THEN /\ Status200(attempts[Len(attempts)])
                      /\ \A i \in 1..(Len(attempts) - 1) : ~Status200(attempts[i])
                      /\ returned.value = Some(<<"dict", SourceResult>>)
                      /\ cache_files[returned.key].kind = "entry"
                      /\ cache_files[returned.key].data = <<"dict", SourceResult>>
                 ELSE /\ Len(attempts) = MAX_RETRIES
                      /\ returned.value = None
                      /\ cache_files[returned.key].kind # "entry"

\* C27 (amended): get_rentabilidade_data makes no attempt on a hit and at most
\* MAX_RETRIES attempts on a miss; it returns the result of the first attempt
\* that answers 200 with a JSON body, making no further attempt and handing the
\* result to the cache (whose write may fail); an answer of status 200 whose
\* body is not JSON counts as a failed attempt; after MAX_RETRIES failed attempts
\* it returns None and writes nothing to the cache.
C27_FirstJsonResult ==
    returned.op = "get_rentabilidade_data" =>
        LET attempts == returned.attempts
            last == Len(attempts)
        IN  /\ last <= MAX_RETRIES
            /\ returned.hit => (attempts = <<>> /\ returned.value # None)
            /\ ~returned.hit =>
                 /\ last >= 1
                 /\ \A i \in 1..(last - 1) : attempts[i] # "200"
                 /\ IF attempts[last] = "200"
                    THEN /\ returned.value = Some(<<"dict", SourceResult>>)
                         /\ returned.saved =>
                              /\ cache_files[returned.key].kind = "entry"
                              /\ cache_files[returned.key].created_at = clock
                              /\ cache_files[returned.key].ttl_hours = CACHE_TTL_HOURS_API
                              /\ cache_files[returned.key].data = <<"dict", SourceResult>>
                    ELSE /\ last = MAX_RETRIES
                         /\ returned.value = None
                         /\ ~returned.saved
                         /\ cache_files[returned.key].kind # "entry"

\* a result returned at the third attempt, after a failed attempt and an answer
\* of status 200 that is not JSON, and stored
C27_Witness ==
    /\ returned.op = "get_rentabilidade_data"
    /\ returned.attempts = <<"failed", "200_not_json", "200">>
    /\ returned.saved
    /\ cache_files[returned.key].kind = "entry"

---------------------------------------------------------------------------
\* DataProcessor (data_processor.py): flatten_response_data and
\* process_all_responses.

MaxResponses == 2
MaxItems == 2

\* the fields flatten_response_data copies from an element of Rentabilidades
RentabilidadeFields ==
    {"DataInicial", "DataFinal", "PercentualSobreBenchmark",
     "PercentualAcumuladoBenchmark", "PercentualAcumulado", "NominalAcumulado"}

\* elements of Rentabilidades: a dictionary with every field (each value is
\* written as the name of its field), a dictionary with DataFinal only, and an
\* element that is not a dictionary
RentabilidadeItems ==
    { [type |-> "dict",
       fields |-> [f \in RentabilidadeFields |-> f]],
      [type |-> "dict",
       fields |-> [f \in {"DataFinal"} |-> "2025-08-04T00:00:00"]],
      [type |-> "text"] }

\* the values of "data": None or {} (falsy), a list, a dictionary without
\* "Rentabilidades", a dictionary whose "Rentabilidades" is not a list, and a
\* dictionary with a list of elements
ResponseDatas ==
    { [type |-> "falsy"], [type |-> "list"], [type |-> "dict", keys |-> {"Erro"}],
      [type |-> "dict", keys |-> {"Rentabilidades"},
       Rentabilidades |-> [type |-> "text"]] }
      \cup { [type |-> "dict", keys |-> {"Rentabilidades"},
              Rentabilidades |-> [type |-> "list", items |-> items]] :
                items \in UNION { [1..n -> RentabilidadeItems] : n \in 0..MaxItems } }

\* rentabilidade.get(field, "")
GetDefault(fields, field) == ""
Get(fields, field) ==
    IF field \in DOMAIN fields THEN fields[field] ELSE ""

\* PERIODO_DESCRICOES.get(periodo, f"Periodo {periodo}")
FlattenDescricao(periodo) ==
    IF periodo \in 1..8 THEN PeriodoDescricao(periodo) ELSE "Periodo"

\* the record built from a dictionary element
FlatRecord(id_value, periodo, rentabilidade) ==
    [Id |-> id_value,
     PeriodoSelecionado |-> periodo,
     DescricaoPeriodo |-> FlattenDescricao(periodo),
     DataInicial |-> Get(rentabilidade.fields, "DataInicial"),
     DataFinal |-> Get(rentabilidade.fields, "DataFinal"),
     PercentualSobreBenchmark |-> Get(rentabilidade.fields, "PercentualSobreBenchmark"),
     PercentualAcumuladoBenchmark |->
         Get(rentabilidade.fields, "PercentualAcumuladoBenchmark"),
     PercentualAcumulado |-> Get(rentabilidade.fields, "PercentualAcumulado"),
     NominalAcumulado |-> Get(rentabilidade.fields, "NominalAcumulado")]

\* the loop over rentabilidades from element i on
RECURSIVE FlattenLoop(_, _, _, _)
FlattenLoop(id_value, periodo, rentabilidades, i) ==
    IF i > Len(rentabilidades) THEN <<>>
    ELSE (IF rentabilidades[i].type = "dict"
          THEN <<FlatRecord(id_value, periodo, rentabilidades[i])>>
          ELSE <<>>)
         \o FlattenLoop(id_value, periodo, rentabilidades, i + 1)

\* flatten_response_data(response_data)
FlattenResponseData(response_data) ==
    IF response_data.data.type = "falsy" THEN <<>>
    ELSE IF response_data.data.type # "dict"
            \/ "Rentabilidades" \notin response_data.data.keys THEN <<>>
    ELSE IF response_data.data.Rentabilidades.type # "list" THEN <<>>
    ELSE FlattenLoop(response_data.id, response_data.periodo,
                     response_data.data.Rentabilidades.items, 1)

\* process_all_responses(responses): the loop from response j on
RECURSIVE ProcessLoop(_, _)
ProcessLoop(resps, j) ==
    IF j > Len(resps) THEN <<>>
    ELSE (IF resps[j] # None THEN FlattenResponseData(resps[j][1]) ELSE <<>>)
         \o ProcessLoop(resps, j + 1)

ProcessAllResponses ==
    /\ all_records = NotProcessed
    /\ all_records' = ProcessLoop(responses, 1)
    /\ UNCHANGED <<responses, app>>
    /\ UNCHANGED cachevars
    /\ UNCHANGED corevars

\* the responses collect_all_data gathers: None, or the result of request j
InitFlat ==
    /\ NoRun
    /\ NoDatabase
    /\ NoCache
    /\ NoApp
    /\ \E n \in 0..MaxResponses :
          responses \in [1..n -> {None} \cup
                                 { Some([id |-> id, periodo |-> 1, data |-> data,
                                         status_code |-> 200]) :
                                     id \in {1}, data \in ResponseDatas }]
    /\ all_records = NotProcessed

NextFlat == ProcessAllResponses

SpecFlat == InitFlat /\ [][NextFlat]_vars

\* Claims on the flattening, under SpecFlat.

\* the dictionary elements of the well-formed responses, as <<j, i>>: element i
\* of response j
DictElements ==
    { <<j, i>> \in (1..Len(responses)) \X (1..MaxItems + 1) :
        /\ responses[j] # None
        /\ responses[j][1].data.type = "dict"
        /\ "Rentabilidades" \in responses[j][1].data.keys
        /\ responses[j][1].data.Rentabilidades.type = "list"
        /\ i <= Len(responses[j][1].data.Rentabilidades.items)
        /\ responses[j][1].data.Rentabilidades.items[i].type = "dict" }

\* how many dictionary elements come before element e in the order of the input
Before(e) ==
    Cardinality({ d \in DictElements : d[1] < e[1] \/ (d[1] = e[1] /\ d[2] < e[2]) })

\* C25: process_all_responses returns one record per dictionary element of
\* data.Rentabilidades of the non-None responses, in the order of the input,
\* each with the response's Id and PeriodoSelecionado and the six fields of the
\* element; empty or malformed data gives no record.
C25_FlattenInOrder ==
    all_records # NotProcessed =>
        /\ Len(all_records) = Cardinality(DictElements)
        /\ \A e \in DictElements :
              LET record == all_records[Before(e) + 1]
                  response == responses[e[1]][1]
                  element == response.data.Rentabilidades.items[e[2]]
              IN  /\ record.Id = response.id
                  /\ record.PeriodoSelecionado = response.periodo
                  /\ \A f \in RentabilidadeFields :
                        IF f \in DOMAIN element.fields
                        THEN record[f] = element.fields[f]
                        ELSE record[f] = ""

\* two responses giving three records: an element that is not a dictionary
\* before a dictionary element, and an element without DataInicial
C25_Witness ==
    /\ all_records # NotProcessed
    /\ Len(responses) = 2
    /\ Len(all_records) = 3
    /\ \E e \in DictElements : e[2] = 2 /\ <<e[1], 1>> \notin DictElements
    /\ \E k \in 1..3 : all_records[k].DataInicial = ""

---------------------------------------------------------------------------
\* RentabilidadeApp.run (main.py): collect and process the feed, export the feed
\* snapshot, fetch the bank records, export the bank snapshot, reconcile.

\* the stage that follows a stage that went well
Following(stage) ==
    CASE stage = "process" -> "export_api"
      [] stage = "export_api" -> "fetch_db"
      [] stage = "fetch_db" -> "export_db"
      [] stage = "export_db" -> "compare"
      [] OTHER -> "finally"

\* where run goes after a stage, and what it returns when it returns: no
\* processed record or a failed export returns False, no bank record returns
\* True, the reconciliation returns True whether it produced a report or not
RunStepNoCheck(stage, ok) ==
    IF stage = "compare" THEN [pc |-> "finally", result |-> Some(TRUE)]
    ELSE [pc |-> Following(stage), result |-> None]
RunStep(stage, ok) ==
    IF stage = "compare" THEN [pc |-> "finally", result |-> Some(TRUE)]
    ELSE IF ok THEN [pc |-> Following(stage), result |-> None]
    ELSE [pc |-> "finally", result |-> Some(stage = "fetch_db")]

\* run after a stage that ended as step says
AppAfter(step, ok) ==
    [app EXCEPT !.pc = RunStep(app.pc, ok).pc,
                !.result = RunStep(app.pc, ok).result,
                !.steps = Append(@, step)]

\* responses = collect_all_data(); api_records = process_all_responses(responses)
CollectAndProcess ==
    /\ app.pc = "process"
    /\ all_records' = ProcessLoop(responses, 1)
    /\ app' = AppAfter("processed", all_records' # <<>>)
    /\ UNCHANGED responses
    /\ UNCHANGED cachevars
    /\ UNCHANGED corevars

\* export_to_csv(sorted_api_records, "dados_rentabilidade_api.csv")
ExportApiCsv ==
    /\ app.pc = "export_api"
    /\ \E api_csv_path \in {"", "dados_rentabilidade_api.csv"} :
          app' = AppAfter(IF api_csv_path = "" THEN "api_export_failed"
                          ELSE "api_exported", api_csv_path # "")
    /\ UNCHANGED flatvars
    /\ UNCHANGED cachevars
    /\ UNCHANGED corevars

\* db_records = get_database_data(sorted_api_records)
FetchBankRecords ==
    /\ app.pc = "fetch_db"
    /\ \E found \in 0..MaxObs :
          app' = AppAfter(IF found = 0 THEN "db_empty" ELSE "db_fetched", found > 0)
    /\ UNCHANGED flatvars
    /\ UNCHANGED cachevars
    /\ UNCHANGED corevars

\* export_to_csv(sorted_db_records, "dados_rentabilidade_banco.csv")
ExportBankCsv ==
    /\ app.pc = "export_db"
    /\ \E db_csv_path \in {"", "dados_rentabilidade_banco.csv"} :
          app' = AppAfter(IF db_csv_path = "" THEN "db_export_failed"
                          ELSE "db_exported", db_csv_path # "")
    /\ UNCHANGED flatvars
    /\ UNCHANGED cachevars
    /\ UNCHANGED corevars

\* comparison_csv_path = run_comparison()
Reconcile ==
    /\ app.pc = "compare"
    /\ \E comparison_csv_path \in {"", "comparacao_rentabilidade.csv"} :
          app' = AppAfter("comparison", comparison_csv_path # "")
    /\ UNCHANGED flatvars
    /\ UNCHANGED cachevars
    /\ UNCHANGED corevars

\* except Exception: an exception raised at any stage returns False
RaiseException ==
    /\ app.pc \in {"process", "export_api", "fetch_db", "export_db", "compare"}
    /\ app' = [app EXCEPT !.pc = "finally", !.result = Some(FALSE),
                          !.steps = Append(@, "exception")]
    /\ UNCHANGED flatvars
    /\ UNCHANGED cachevars
    /\ UNCHANGED corevars

\* finally: self.api_client.close(), then run returns
Finally ==
    /\ app.pc = "finally"
    /\ app' = [app EXCEPT !.pc = "returned", !.closed = TRUE]
    /\ UNCHANGED flatvars
    /\ UNCHANGED cachevars
    /\ UNCHANGED corevars

InitApp ==
    /\ NoRun
    /\ NoDatabase
    /\ NoCache
    /\ \E n \in 0..MaxResponses :
          responses \in [1..n -> {None} \cup
                                 { Some([id |-> id, periodo |-> 1, data |-> data,
                                         status_code |-> 200]) :
                                     id \in {1}, data \in ResponseDatas }]
    /\ all_records = NotProcessed
    /\ app = [pc |-> "process", steps |-> <<>>, result |-> None, closed |-> FALSE]

NextApp ==
    \/ CollectAndProcess
    \/ ExportApiCsv
    \/ FetchBankRecords
    \/ ExportBankCsv
    \/ Reconcile
    \/ RaiseException
    \/ Finally

SpecApp == InitApp /\ [][NextApp]_vars

\* Claims on the run of the application, under SpecApp.

\* step s has been done
Done(s) == \E k \in 1..Len(app.steps) : app.steps[k] = s

\* step s has been done before the step of number k
DoneBefore(s, k) == \E j \in 1..(k - 1) : app.steps[j] = s

\* C28: the reconciliation starts only after the feed snapshot and the bank
\* snapshot have both been exported in the same run; run returns False when no
\* feed record was processed or an export fails, True without reconciling when
\* the database yields no records, and the HTTP client is closed whenever run
\* has returned.
C28_RunOrder ==
    /\ \A k \in 1..Len(app.steps) :
          app.steps[k] = "comparison" =>
              DoneBefore("api_exported", k) /\ DoneBefore("db_exported", k)
    /\ app.pc \in {"finally", "returned"} =>
          /\ app.result # None
          /\ (Done("processed") /\ all_records = <<>>) => app.result = Some(FALSE)
          /\ (Done("api_export_failed") \/ Done("db_export_failed")) =>
                app.result = Some(FALSE)
          /\ Done("db_empty") => (app.result = Some(TRUE) /\ ~Done("comparison"))
    /\ app.pc = "returned" => app.closed
    /\ app.pc \notin {"finally", "returned"} => (app.result = None /\ ~app.closed)

\* a run that reconciled and returned
C28_Witness ==
    /\ app.pc = "returned"
    /\ app.steps = <<"processed", "api_exported", "db_fetched", "db_exported",
                     "comparison">>
    /\ app.result = Some(TRUE)
    /\ app.closed

---------------------------------------------------------------------------
\* Telescoping of the accumulated return (specification SpecCalc).

\* no observation of the group has quota 0
NoZeroQuota(g) == \A i \in 1..Len(g) : g[i].QuotaValue # 0

\* quota / baseline - 1
OverBaseline(quota, baseline) == RSub(RDiv(Rat(quota), Rat(baseline)), Rat(1))

\* C29: in a group with an anchor and no zero quota the accumulated return of
\* every in-period record is quota / anchor_quota - 1, the anchor being an
\* earliest pre-period observation; in a group without anchor it is
\* quota / quota of the first in-period record - 1.
C29_Telescoping ==
    \A key \in InputKeys :
        LET in == InputGroup(key)
            g == OutputGroup(key)
        IN  NoZeroQuota(in) =>
                IF PrePositions(in) # {}
                THEN \E a \in EarliestPre(in) :
                        \A i \in 1..Len(g) :
                            g[i].RentabilidadeAcumulada =
                                OverBaseline(g[i].QuotaValue, in[a].QuotaValue)
                ELSE \A i \in 1..Len(g) :
                        g[i].RentabilidadeAcumulada =
                            OverBaseline(g[i].QuotaValue, g[1].QuotaValue)

\* C29 witness: no anchor and three in-period observations of quotas 121, 110
\* and 100: the third record has accumulated return 100/121 - 1, whatever the
\* quota in between.
C29_Witness ==
    /\ db_status = "done"
    /\ \E key \in InputKeys :
          LET in == InputGroup(key)
              g == OutputGroup(key)
          IN  /\ PrePositions(in) = {}
              /\ Len(g) = 3
              /\ g[1].QuotaValue = 121 /\ g[2].QuotaValue = 110 /\ g[3].QuotaValue = 100
              /\ g[1].RentabilidadeAcumulada = Rat(0)
              /\ g[3].RentabilidadeAcumulada = <<-21, 121>>

---------------------------------------------------------------------------
\* Runs over snapshots with several bank records: the inputs on which the
\* number of rows per bank record shows.
MaxBankRows == 2
RowsApiRecord ==
    [Id : Ids, PeriodoSelecionado : Periodos, DataFinal : FeedDates,
     PercentualAcumulado : {NaN, <<211, 10>>}]
RowsBankRecord ==
    [FinancialInstrumentId : Ids, PeriodoSelecionado : Periodos, PositionDate : BankDates,
     PorcentagemRentabilidadeAcumulada : {Rat(21)}]

InitRows ==
    /\ \E n \in 0..MaxFeed :
          /\ api_df \in [1..n -> RowsApiRecord]
          /\ IsApiSnapshot(api_df)
    /\ \E n \in 0..MaxBankRows :
          /\ bank_df \in [1..n -> RowsBankRecord]
          /\ IsBankSnapshot(bank_df)
    /\ result_df = <<>>
    /\ cmp_status = "loaded"
    /\ runs = 0
    /\ NoDate
    /\ db_records = <<>>
    /\ db_result = <<>>
    /\ db_status = "idle"
    /\ NoDatabase
    /\ NoServices

NextRows == RunComparison

SpecRows == InitRows /\ [][NextRows]_vars

\* Claim on the number of rows, under SpecRows.

\* two feed records share instrument, period and normalized date
FeedHasDuplicateKey ==
    \E i, j \in 1..Len(api_df) :
        /\ i < j
        /\ api_df[i].Id = api_df[j].Id
        /\ api_df[i].PeriodoSelecionado = api_df[j].PeriodoSelecionado
        /\ NormalizeDate(api_df[i].DataFinal) = NormalizeDate(api_df[j].DataFinal)

\* the rows of the report with a bank-side date
BankDatedRows == { k \in 1..Len(result_df) : result_df[k].PositionDate_Banco # EmptyText }

\* C30: the comparison emits at least one row for every bank record, and exactly
\* one when at most one feed record shares its instrument, period and normalized
\* date; when no two feed records share instrument, period and normalized date
\* the rows with a bank-side date are as many as the bank records.
C30_RowsPerBankRecord ==
    Compared =>
        /\ \A i \in 1..Len(bank_df) :
              /\ Cardinality(RowsOfBank(bank_df[i])) >= Count(bank_df, bank_df[i])
              /\ Cardinality(ExactFeed(bank_df[i])) <= 1 =>
                    Cardinality(RowsOfBank(bank_df[i])) = Count(bank_df, bank_df[i])
        /\ ~FeedHasDuplicateKey => Cardinality(BankDatedRows) = Len(bank_df)

\* two bank records of one instrument: one with a feed record of its date, one
\* without, and a row for each
C30_Witness ==
    /\ Compared
    /\ Len(bank_df) = 2
    /\ Len(api_df) = 2
    /\ ~FeedHasDuplicateKey
    /\ Cardinality(ExactFeed(bank_df[1])) = 1
    /\ ExactFeed(bank_df[2]) = {}
    /\ Cardinality(BankDatedRows) = 2
    /\ \E k \in 1..Len(result_df) : result_df[k].TipoRegistro = "Ambas (Data exata)"

=============================================================================
